---- MODULE Spec2Model ----
(***************************************************************************)
(* A model of the sheila test-orchestration core (joeymeere/sheila):       *)
(* the fixture dependency graph, the fixture lifecycle manager, the result *)
(* model, the run state tracker, the executable runner, the hooks, the     *)
(* fixture registry and the in-process suite executor.                     *)
(*                                                                         *)
(* Each component has its own specification over the shared variables;     *)
(* the variables of the other components stay at their initial value.      *)
(***************************************************************************)
EXTENDS Integers, Sequences, FiniteSets, TLC

VARIABLES
    graph,      \* FixtureDependencyGraph: keys (IndexMap order), deps
    order,      \* what the last resolve_order() returned, for the current graph
    circ,       \* what the last has_circular_dependencies() returned
    added,      \* the arguments of the last add_fixture call
    suite,      \* a SuiteResult
    run,        \* a RunResult
    mgr,        \* a FixtureManager: definitions and the three instance tables
    mlog,       \* the setup and teardown functions the manager invoked
    trk,        \* TestRunState: tests and pending_errors, by test name
    events,     \* the ProcessOutput events emitted so far
    test_results, \* the TestResults collected from the terminal events
    now,        \* the clock, in milliseconds
    fed,        \* the lines handled so far, each with what it was parsed to
    runner,     \* CargoTestRunner::execute_tests: its position and its locals
    hk,         \* a Hooks, a SuiteHooks, and what the last execute call did
    ts,         \* a TestSuite, and TestSuite::execute: its position and locals
    thin,         \* DefaultTestRunner::run: its position and its locals
    ctk,         \* the TestRunState of runners/cargo, and the lines it handled
    lb,         \* a LineBuffer, the stream it reads and the lines it returned
    pg,         \* the stderr lines read_panic_group reads, and what its calls returned
    ex,         \* CargoTestRunner::exec_test: the runner's tracker, the child and its pipes
    exec_pc     \* CargoTestRunner::exec_test: its position

graphVars == <<graph, order, circ, added>>
resultVars == <<suite, run>>
managerVars == <<mgr, mlog>>
trackerVars == <<trk, events, test_results, now, fed>>
execVars == <<ex, exec_pc>>
vars == <<graphVars, resultVars, managerVars, trackerVars, runner, hk, ts, thin, ctk, lb, pg, execVars>>

\* What an operation of one component leaves alone: the other components.
otherThanGraph == <<resultVars, managerVars, trackerVars, runner, hk, ts, thin, ctk, lb, pg, execVars>>
otherThanResult == <<graphVars, managerVars, trackerVars, runner, hk, ts, thin, ctk, lb, pg, execVars>>
otherThanManager == <<graphVars, resultVars, trackerVars, runner, hk, ts, thin, ctk, lb, pg, execVars>>
otherThanTracker == <<graphVars, resultVars, managerVars, runner, hk, ts, thin, ctk, lb, pg, execVars>>
otherThanRunner == <<graphVars, resultVars, managerVars, trackerVars, hk, ts, thin, ctk, lb, pg, execVars>>
otherThanHooks == <<graphVars, resultVars, managerVars, trackerVars, runner, ts, thin, ctk, lb, pg, execVars>>
otherThanSuite == <<graphVars, resultVars, managerVars, trackerVars, runner, hk, thin, ctk, lb, pg, execVars>>
otherThanThin == <<graphVars, resultVars, managerVars, trackerVars, runner, hk, ts, ctk, lb, pg, execVars>>
otherThanCargoTracker == <<graphVars, resultVars, managerVars, trackerVars, runner, hk, ts, thin, lb, pg, execVars>>
otherThanLineBuffer == <<graphVars, resultVars, managerVars, trackerVars, runner, hk, ts, thin, ctk, pg, execVars>>
otherThanPanicGroup == <<graphVars, resultVars, managerVars, trackerVars, runner, hk, ts, thin, ctk, lb, execVars>>
otherThanExec == <<graphVars, resultVars, managerVars, trackerVars, runner, hk, ts, thin, ctk, lb, pg>>

Range(s) == {s[i] : i \in DOMAIN s}

RECURSIVE Reverse(_)
Reverse(s) == IF s = <<>> THEN <<>> ELSE Append(Reverse(Tail(s)), Head(s))

(***************************************************************************)
(* Fixture dependency graph  (crates/core/src/fixtures/dependency.rs)      *)
(***************************************************************************)

\* Names a fixture can be registered under, and the longest dependency list.
Names == {"A", "B", "C"}
MaxDeps == 2

\* The dependency lists a fixture is registered with: up to MaxDeps names, none
\* repeated (a repeated name is visited once and skipped as visited after that).
DepLists ==
    {s \in UNION {[1..n -> Names] : n \in 0..MaxDeps} :
        \A i, j \in DOMAIN s : i # j => s[i] # s[j]}

\* IndexMap::insert: a new key goes last, an existing key keeps its place.
IndexMapInsert(keys, k) ==
    IF k \in Range(keys) THEN keys ELSE Append(keys, k)

\* FixtureDependencyGraph::new
NewGraph == [keys |-> <<>>, deps |-> <<>>]

\* A registration that refuses a fixture whose dependency is not registered yet.
add_fixture_checked(g, name, deps) ==
    IF Range(deps) \subseteq Range(g.keys)
    THEN [keys |-> IndexMapInsert(g.keys, name),
          deps |-> [n \in Range(g.keys) \cup {name} |->
                        IF n = name THEN deps ELSE g.deps[n]]]
    ELSE g

\* FixtureDependencyGraph::add_fixture: both maps get the entry, no check.
add_fixture(g, name, deps) ==
    [keys |-> IndexMapInsert(g.keys, name),
     deps |-> [n \in Range(g.keys) \cup {name} |->
                   IF n = name THEN deps ELSE g.deps[n]]]

NoError == [kind |-> "none", msg |-> <<>>]

\* Error::fixture(format!("Circular dependency detected involving fixture '{}'"))
CycleError(name) ==
    [kind |-> "cycle",
     msg  |-> <<"Circular dependency detected involving fixture '", name, "'">>]

\* Error::fixture(format!("Fixture '{}' depends on undefined fixture '{}'"))
UndefinedError(name, dep) ==
    [kind |-> "undefined",
     msg  |-> <<"Fixture '", name, "' depends on undefined fixture '", dep, "'">>]

\* A visit that takes a fixture being visited for one already visited.
on_temp_visited_ignored(st, name) == st

\* visit_fixture, the fixture is in temp_visited: the cycle error.
on_temp_visited(st, name) == [st EXCEPT !.err = CycleError(name)]

\* A visit that does not notice an unregistered dependency.
on_undefined_dep_skipped(st, name, dep) == st

\* visit_fixture, a dependency that is no key of fixtures: the undefined error.
on_undefined_dep(st, name, dep) == [st EXCEPT !.err = UndefinedError(name, dep)]

RECURSIVE visit_fixture(_, _, _), visit_deps(_, _, _, _)

\* The loop over the dependencies of fixture_name, from the i-th on.
visit_deps(g, name, i, st) ==
    IF i > Len(g.deps[name]) THEN st
    ELSE LET dep == g.deps[name][i] IN
         IF dep \notin Range(g.keys)
         THEN on_undefined_dep(st, name, dep)
         ELSE LET s2 == visit_fixture(g, dep, st) IN
              IF s2.err.kind # "none" THEN s2
              ELSE visit_deps(g, name, i + 1, s2)

\* A visit that does not look at `visited`: a fixture is pushed each time the
\* traversal comes to it.
visit_fixture_revisiting(g, name, st) ==
    IF name \in st.temp_visited THEN on_temp_visited(st, name)
    ELSE LET s1 == [st EXCEPT !.temp_visited = @ \cup {name}]
             s2 == IF name \in DOMAIN g.deps
                   THEN visit_deps(g, name, 1, s1)
                   ELSE s1
         IN IF s2.err.kind # "none" THEN s2
            ELSE [s2 EXCEPT !.temp_visited = @ \ {name},
                            !.visited = @ \cup {name},
                            !.result = Append(@, name)]

\* FixtureDependencyGraph::visit_fixture
visit_fixture(g, name, st) ==
    IF name \in st.temp_visited THEN on_temp_visited(st, name)
    ELSE IF name \in st.visited THEN st
    ELSE LET s1 == [st EXCEPT !.temp_visited = @ \cup {name}]
             s2 == IF name \in DOMAIN g.deps
                   THEN visit_deps(g, name, 1, s1)
                   ELSE s1
         IN IF s2.err.kind # "none" THEN s2
            ELSE [s2 EXCEPT !.temp_visited = @ \ {name},
                            !.visited = @ \cup {name},
                            !.result = Append(@, name)]

RECURSIVE resolve_loop(_, _, _)

\* The loop of resolve_order over fixtures.keys(), ended by the first error.
resolve_loop(g, i, st) ==
    IF i > Len(g.keys) THEN st
    ELSE IF g.keys[i] \in st.visited THEN resolve_loop(g, i + 1, st)
    ELSE LET s2 == visit_fixture(g, g.keys[i], st) IN
         IF s2.err.kind # "none" THEN s2 ELSE resolve_loop(g, i + 1, s2)

Ok(v) == [tag |-> "Ok", value |-> v, err |-> NoError]
Err(e) == [tag |-> "Err", value |-> <<>>, err |-> e]

\* A resolution that returns the fixtures as registered.
resolve_order_unsorted(g) == Ok(g.keys)

\* FixtureDependencyGraph::resolve_order
resolve_order(g) ==
    LET st == resolve_loop(g, 1, [visited |-> {}, temp_visited |-> {},
                                  result |-> <<>>, err |-> NoError])
    IN IF st.err.kind # "none" THEN Err(st.err) ELSE Ok(st.result)

\* FixtureDependencyGraph::has_circular_dependencies
has_circular_dependencies(g) == resolve_order(g).tag = "Err"

NotCalled == [tag |-> "NotCalled", value |-> <<>>, err |-> NoError]
NotAsked == [called |-> FALSE, value |-> FALSE]
NoAdd == [name |-> "", deps |-> <<>>]

GraphInit ==
    /\ graph = NewGraph
    /\ order = NotCalled
    /\ circ = NotAsked
    /\ added = NoAdd

(***************************************************************************)
(* Result model  (crates/core/src/suite.rs, crates/core/src/runners/mod.rs)*)
(***************************************************************************)

\* The statuses of a TestResult (the enum is declared in crates/core/src/test.rs).
TestStatus == {"Passed", "Failed", "Skipped", "Ignored", "Timeout"}

\* Option<Error>: "None", or the kind of the error.
ErrorKinds == {"TestExecution", "Fixture", "Hook", "Generic", "Io"}
OptError == {"None"} \cup ErrorKinds

\* TestResult::new followed by TestResult::finish(status, error).
FinishedTestResult(name, status, error) ==
    [name |-> name, status |-> status, error |-> error]

\* SuiteResult::new
NewSuiteResult(name) ==
    [name |-> name, test_results |-> <<>>,
     total_tests |-> 0, passed_tests |-> 0, failed_tests |-> 0,
     skipped_tests |-> 0, error |-> "None", finished |-> FALSE]

\* A counting that leaves a timed-out test out of the failed tests.
add_test_result_no_timeout(s, result) ==
    LET st == result.status IN
    [s EXCEPT !.total_tests = @ + 1,
              !.passed_tests = IF st = "Passed" THEN @ + 1 ELSE @,
              !.failed_tests = IF st = "Failed" THEN @ + 1 ELSE @,
              !.skipped_tests = IF st \in {"Skipped", "Ignored"} THEN @ + 1 ELSE @,
              !.test_results = Append(@, result)]

\* SuiteResult::add_test_result
add_test_result(s, result) ==
    LET st == result.status IN
    [s EXCEPT !.total_tests = @ + 1,
              !.passed_tests = IF st = "Passed" THEN @ + 1 ELSE @,
              !.failed_tests = IF st \in {"Failed", "Timeout"} THEN @ + 1 ELSE @,
              !.skipped_tests = IF st \in {"Skipped", "Ignored"} THEN @ + 1 ELSE @,
              !.test_results = Append(@, result)]

\* SuiteResult::finish
suite_finish(s, error) == [s EXCEPT !.finished = TRUE, !.error = error]

\* A check that looks at the failed tests only.
suite_all_passed_no_error(s) == s.failed_tests = 0

\* SuiteResult::all_passed
suite_all_passed(s) == s.failed_tests = 0 /\ s.error = "None"

\* RunResult::new
NewRunResult ==
    [suite_results |-> <<>>,
     total_suites |-> 0, passed_suites |-> 0, failed_suites |-> 0,
     skipped_suites |-> 0,
     total_tests |-> 0, passed_tests |-> 0, failed_tests |-> 0,
     skipped_tests |-> 0, error |-> "None", finished |-> FALSE]

\* An aggregation that takes the failed tests for the skipped ones.
add_suite_result_swapped(r, result) ==
    [r EXCEPT !.total_suites = @ + 1,
              !.total_tests = @ + result.total_tests,
              !.passed_tests = @ + result.passed_tests,
              !.failed_tests = @ + result.skipped_tests,
              !.skipped_tests = @ + result.skipped_tests,
              !.passed_suites = IF suite_all_passed(result) THEN @ + 1 ELSE @,
              !.failed_suites =
                  IF ~suite_all_passed(result)
                     /\ (result.failed_tests > 0 \/ result.error # "None")
                  THEN @ + 1 ELSE @,
              !.skipped_suites =
                  IF ~suite_all_passed(result)
                     /\ ~(result.failed_tests > 0 \/ result.error # "None")
                  THEN @ + 1 ELSE @,
              !.suite_results = Append(@, result.name)]

\* An aggregation that counts a suite as passed when none of its tests
\* failed, whatever its error.
add_suite_result_by_failed_tests(r, result) ==
    [r EXCEPT !.total_suites = @ + 1,
              !.total_tests = @ + result.total_tests,
              !.passed_tests = @ + result.passed_tests,
              !.failed_tests = @ + result.failed_tests,
              !.skipped_tests = @ + result.skipped_tests,
              !.passed_suites = IF result.failed_tests = 0 THEN @ + 1 ELSE @,
              !.failed_suites = IF result.failed_tests > 0 THEN @ + 1 ELSE @,
              !.suite_results = Append(@, result.name)]

\* RunResult::add_suite_result. The stored SuiteResult is kept by its name.
add_suite_result(r, result) ==
    [r EXCEPT !.total_suites = @ + 1,
              !.total_tests = @ + result.total_tests,
              !.passed_tests = @ + result.passed_tests,
              !.failed_tests = @ + result.failed_tests,
              !.skipped_tests = @ + result.skipped_tests,
              !.passed_suites = IF suite_all_passed(result) THEN @ + 1 ELSE @,
              !.failed_suites =
                  IF ~suite_all_passed(result)
                     /\ (result.failed_tests > 0 \/ result.error # "None")
                  THEN @ + 1 ELSE @,
              !.skipped_suites =
                  IF ~suite_all_passed(result)
                     /\ ~(result.failed_tests > 0 \/ result.error # "None")
                  THEN @ + 1 ELSE @,
              !.suite_results = Append(@, result.name)]

\* RunResult::finish
run_finish(r, error) == [r EXCEPT !.finished = TRUE, !.error = error]

\* RunResult::all_passed
run_all_passed(r) ==
    r.failed_tests = 0 /\ r.failed_suites = 0 /\ r.error = "None"

\* The most tests added to one SuiteResult, and suites added to one RunResult.
MaxTests == 3
MaxSuites == 2

RECURSIVE BuildSuite(_, _)
\* The SuiteResult after add_test_result for each status of the sequence sts.
BuildSuite(s, sts) ==
    IF sts = <<>> THEN s
    ELSE BuildSuite(add_test_result(s, FinishedTestResult("t", Head(sts), "None")),
                    Tail(sts))

StatusSeqs == UNION {[1..n -> TestStatus] : n \in 0..MaxTests}

ResultInit ==
    /\ suite = NewSuiteResult("s")
    /\ run = NewRunResult

(***************************************************************************)
(* FixtureManager  (crates/core/src/fixtures/lifecycle.rs)                 *)
(***************************************************************************)

\* The fixtures a FixtureManager is given.
MgrNames == {"A", "B"}

\* FixtureScope
FixtureScope == {"Session", "Suite", "Test", "Invocation"}

\* The dependency lists of the definitions given to register: up to MaxMgrDeps
\* names, none repeated.
MaxMgrDeps == 1

MgrDepLists ==
    {s \in UNION {[1..n -> MgrNames] : n \in 0..MaxMgrDeps} :
        \A i, j \in DOMAIN s : i # j => s[i] # s[j]}

\* FixtureDefinition: scope, dependencies, and whether the optional setup and
\* teardown functions are there.
FixtureDefinition(scope, dependencies, setup, teardown) ==
    [present |-> TRUE, scope |-> scope, dependencies |-> dependencies,
     setup |-> setup, teardown |-> teardown]

\* A name that definitions.get does not find.
NoDefinition ==
    [present |-> FALSE, scope |-> "Test", dependencies |-> <<>>,
     setup |-> FALSE, teardown |-> FALSE]

\* FixtureManager::new. The three instance tables hold the names that have an
\* instance.
NewFixtureManager ==
    [definitions |-> [n \in MgrNames |-> NoDefinition],
     session_fixtures |-> {}, suite_fixtures |-> {}, test_fixtures |-> {},
     aborted |-> FALSE]

\* FixtureManager::register
register(m, name, definition) ==
    [m EXCEPT !.definitions[name] = definition]

\* The instance table of a scope: Test and Invocation share one.
TableOf(scope) ==
    CASE scope = "Session" -> "session_fixtures"
      [] scope = "Suite" -> "suite_fixtures"
      [] OTHER -> "test_fixtures"

\* FixtureManager::get_fixture(name, scope).is_some()
get_fixture(m, name, scope) == name \in m[TableOf(scope)]

RECURSIVE setup_fixture(_, _, _, _), setup_dependencies(_, _, _, _, _)

\* The loop of setup_fixture over definition.dependencies, from the i-th on: a
\* dependency is looked up in the table of the scope of `definition`.
setup_dependencies(m, definition, i, failing, active) ==
    IF i > Len(definition.dependencies)
    THEN [m |-> m, invoked |-> <<>>, res |-> "Ok"]
    ELSE LET dep_name == definition.dependencies[i] IN
         IF get_fixture(m, dep_name, definition.scope)
         THEN setup_dependencies(m, definition, i + 1, failing, active)
         ELSE LET d == setup_fixture(m, dep_name, failing, active) IN
              IF d.res # "Ok" THEN d
              ELSE LET rest == setup_dependencies(d.m, definition, i + 1,
                                                  failing, active)
                   IN [rest EXCEPT !.invoked = d.invoked \o @]

\* FixtureManager::setup_fixture. `failing` are the fixtures whose setup function
\* returns an error; `active` are the fixtures whose setup_fixture call is on
\* the stack: a call for one of them repeats the calls that led to it, without
\* end, and the stack overflows. `invoked` lists the setup functions that were
\* invoked and returned a value, in order.
setup_fixture(m, name, failing, active) ==
    IF ~m.definitions[name].present
    THEN [m |-> m, invoked |-> <<>>, res |-> "Err"]
    ELSE IF name \in active
    THEN [m |-> [m EXCEPT !.aborted = TRUE], invoked |-> <<>>, res |-> "Overflow"]
    ELSE LET definition == m.definitions[name]
             d == setup_dependencies(m, definition, 1, failing,
                                     active \cup {name})
         IN IF d.res # "Ok" THEN d
            ELSE IF definition.setup /\ name \in failing
            THEN [d EXCEPT !.res = "Err"]
            ELSE [m |-> [d.m EXCEPT ![TableOf(definition.scope)] = @ \cup {name}],
                  invoked |-> IF definition.setup
                              THEN Append(d.invoked, name) ELSE d.invoked,
                  res |-> "Ok"]

RECURSIVE teardown_loop(_, _, _, _, _)

\* The loop of teardown_by_scope over the drained instances, from the i-th on:
\* an instance that somebody else still holds is skipped, FixtureInstance::
\* teardown calls the teardown function if there is one, and the first error
\* ends the loop. `invoked` lists the teardown functions invoked, in order.
teardown_loop(fixtures, i, m, held, failing) ==
    IF i > Len(fixtures) THEN [invoked |-> <<>>, res |-> "Ok"]
    ELSE LET name == fixtures[i] IN
         IF name \in held \/ ~m.definitions[name].teardown
         THEN teardown_loop(fixtures, i + 1, m, held, failing)
         ELSE IF name \in failing THEN [invoked |-> <<name>>, res |-> "Err"]
         ELSE LET rest == teardown_loop(fixtures, i + 1, m, held, failing)
              IN [rest EXCEPT !.invoked = <<name>> \o @]

\* The orders in which HashMap::drain can hand out the entries of a table.
DrainOrders(table) ==
    {s \in [1..Cardinality(table) -> table] :
        \A i, j \in DOMAIN s : i # j => s[i] # s[j]}

\* FixtureManager::teardown_by_scope, the drained entries coming in the order
\* `fixtures`.
teardown_by_scope(m, scope, fixtures, held, failing) ==
    LET t == teardown_loop(fixtures, 1, m, held, failing)
    IN [m |-> [m EXCEPT ![TableOf(scope)] = {}],
        invoked |-> t.invoked, res |-> t.res]

\* The setup functions invoked for each table since it was last drained, and
\* the last teardown_by_scope call: its scope, the setup functions invoked for
\* its table before it, the teardown functions it invoked, the instances that
\* were held elsewhere, what it returned, and whether the other tables were
\* left as they were.
NoTeardown ==
    [scope |-> "none", before |-> <<>>, drained |-> {}, teardowns |-> <<>>,
     held |-> {}, res |-> "none", others_kept |-> TRUE]

\* The last setup_fixture call: its name, the three tables before it, the
\* setup functions it invoked, and what it returned.
NoSetup ==
    [name |-> "none", session_fixtures |-> {}, suite_fixtures |-> {},
     test_fixtures |-> {}, invoked |-> <<>>, res |-> "none"]

NewManagerLog ==
    [setups |-> [t \in {"session_fixtures", "suite_fixtures", "test_fixtures"}
                    |-> <<>>],
     last |-> NoTeardown, setup_res |-> "none", last_setup |-> NoSetup]

\* The most setup functions on record for one table when setup_fixture is called.
MaxSetups == 2

ManagerInit ==
    /\ mgr = NewFixtureManager
    /\ mlog = NewManagerLog

(***************************************************************************)
(* Run state tracker and line parsers  (crates/core/src/misc.rs, types.rs) *)
(*                                                                         *)
(* A raw text line is the sequence of its words; a test name is the        *)
(* sequence of its path segments. An f64 is kept in thousandths, so that   *)
(* 0.01 is 10 and one millisecond, as a number of milliseconds, is 1000.   *)
(***************************************************************************)

\* The names of the tests of the child process: a plain one, and one inside a
\* module generated by the suite macro.
TestNames == {<<"t">>, <<"m", "__sheila_m_tests", "u">>}

\* format_mod_name: the first `::__sheila_..._tests::` of a name becomes `::`.
format_mod_name(name) ==
    IF \E i \in 2..(Len(name) - 1) : name[i] = "__sheila_m_tests"
    THEN LET i == CHOOSE k \in 2..(Len(name) - 1) :
                    /\ name[k] = "__sheila_m_tests"
                    /\ \A j \in 2..(k - 1) : name[j] # "__sheila_m_tests"
         IN SubSeq(name, 1, i - 1) \o SubSeq(name, i + 1, Len(name))
    ELSE name

\* Option<T>: Some(v), and None with a value of the type in its place.
Some(v) == [some |-> TRUE, v |-> v]
None(v) == [some |-> FALSE, v |-> v]

\* SourceLocation, and the one an absent Option<SourceLocation> is written with.
SourceLocation(file, line, column) ==
    [file |-> file, line |-> line, column |-> column]
NoLocation == SourceLocation("", 0, 0)

\* A string that an error is rendered to: literal words, then the location
\* and the message it was formatted from.
Text(literal, location, message) ==
    [literal |-> literal, location |-> location, message |-> message]

\* TestOutputLine: TestStart, TestResult, SuiteStart or Panic, with the fields
\* of its variant (the others are left at their default).
TestOutputLine(type, name, status, duration_ms, message, location) ==
    [type |-> type, name |-> name, status |-> status,
     duration_ms |-> duration_ms, message |-> message, location |-> location]

\* A line that no parser accepts.
NoLine == TestOutputLine("None", <<>>, "", None(0), "", None(NoLocation))

\* u32 parsing of the digit strings that occur in the lines.
ParseU32 == [d \in {"1", "5", "10"} |->
                CASE d = "1" -> 1 [] d = "5" -> 5 [] d = "10" -> 10]

\* StandardLineParser::parse_test_output: alt((parse_test_result,
\* parse_test_start, parse_suite_start)).
parse_test_output(input) ==
    IF Len(input) >= 4 /\ input[1] = "test" /\ input[3] = "..."
       /\ input[4] \in {"ok", "FAILED", "ignored"}
    THEN TestOutputLine("TestResult", input[2],
                        CASE input[4] = "ok" -> "Passed"
                          [] input[4] = "FAILED" -> "Failed"
                          [] input[4] = "ignored" -> "Skipped",
                        None(0), "", None(NoLocation))
    ELSE IF Len(input) >= 2 /\ input[1] = "test"
    THEN TestOutputLine("TestStart", input[2], "", None(0), "", None(NoLocation))
    ELSE IF Len(input) >= 3 /\ input[1] = "running"
            /\ input[2] \in DOMAIN ParseU32 /\ input[3] = "test"
    THEN TestOutputLine("SuiteStart", <<>>, "", None(0), "", None(NoLocation))
    ELSE NoLine

\* StandardLineParser::parse_error_output (parse_panic): the header
\* `thread '<name>' panicked at <file>:<line>:<column>:`, a newline, and the
\* message.
parse_error_output(input) ==
    IF Len(input) >= 8 /\ input[1] = "thread" /\ input[3] = "panicked at"
       /\ input[5] \in DOMAIN ParseU32 /\ input[6] \in DOMAIN ParseU32
       /\ input[7] = ":\n"
    THEN TestOutputLine("Panic", input[2], "", None(0), input[8],
                        Some(SourceLocation(input[4], ParseU32[input[5]],
                                            ParseU32[input[6]])))
    ELSE NoLine

\* JsonLineParser::parse_test_output, of a JSON object with the fields type,
\* event, name and exec_time (each Some or None).
json_parse_test_output(json) ==
    LET type == json.type.v
        event == json.event.v
        named(status, duration_ms) ==
            IF json.name.some
            THEN TestOutputLine("TestResult", json.name.v, status, duration_ms,
                                "", None(NoLocation))
            ELSE NoLine
    IN IF ~json.type.some \/ ~json.event.some THEN NoLine
       ELSE IF type = "suite" /\ event = "started"
       THEN TestOutputLine("SuiteStart", <<>>, "", None(0), "", None(NoLocation))
       ELSE IF type = "test" /\ event = "started"
       THEN IF json.name.some
            THEN TestOutputLine("TestStart", json.name.v, "", None(0), "",
                                None(NoLocation))
            ELSE NoLine
       ELSE IF type = "test" /\ event = "ok"
       THEN named("Passed", json.exec_time)
       ELSE IF type = "test" /\ event = "failed"
       THEN named("Failed", json.exec_time)
       ELSE IF type = "test" /\ event = "ignored"
       THEN named("Skipped", None(0))
       ELSE NoLine

\* Error::test_execution(text), and the absent Option<Error> of a TestResult.
test_execution(text) == [kind |-> "TestExecution", text |-> text]
NoTestError == [kind |-> "None", text |-> Text("", None(NoLocation), None(""))]

\* StandardLineParser::create_test_result
create_test_result(name, status) ==
    CASE status = "Passed" ->
            FinishedTestResult(format_mod_name(name), "Passed", NoTestError)
      [] status = "Failed" ->
            FinishedTestResult(format_mod_name(name), "Failed",
                test_execution(Text("Test failed", None(NoLocation), None(""))))
      [] OTHER ->
            FinishedTestResult(format_mod_name(name), "Skipped", NoTestError)

\* ErrorInfo::new, and <ErrorInfo as ToString>::to_string, which hands the
\* location and the message to format_err_context.
NewErrorInfo == [location |-> None(NoLocation), message |-> None("")]
to_string(error_info) == Text("", error_info.location, error_info.message)

\* TestState: a name that is not in the tests map, Running and Completed.
Absent == [state |-> "Absent", started_at |-> 0, duration_ms |-> 0, status |-> ""]
Running(started_at) == [Absent EXCEPT !.state = "Running", !.started_at = started_at]
Completed(duration_ms, status) ==
    [Absent EXCEPT !.state = "Completed", !.duration_ms = duration_ms,
                   !.status = status]

\* TestRunState::new
NewTestRunState ==
    [tests |-> [n \in TestNames |-> Absent],
     pending_errors |-> [n \in TestNames |-> None(NewErrorInfo)]]

\* ProcessOutput, and the None of an Option<ProcessOutput>.
ProcessOutput(type, name, result, duration_ms, error, location) ==
    [type |-> type, name |-> name, result |-> result,
     duration_ms |-> duration_ms, error |-> error, location |-> location]
NoOutput ==
    ProcessOutput("None", <<>>, FinishedTestResult(<<>>, "", NoTestError), 0,
                  Text("", None(NoLocation), None("")), None(NoLocation))

\* A removal that leaves the entry where it is.
pending_errors_keep(pending_errors, name) == pending_errors

\* `self.pending_errors.remove(&name)`: the map without an entry for the name.
pending_errors_remove(pending_errors, name) ==
    [pending_errors EXCEPT ![name] = None(NewErrorInfo)]

\* A check that takes a completed test for a running one.
is_running_or_completed(st, name) ==
    st.tests[name].state \in {"Running", "Completed"}

\* A test that takes a name never started for a running one.
is_running_or_absent(st, name) == st.tests[name].state \in {"Running", "Absent"}

\* `if let Some(TestState::Running { started_at }) = self.tests.get(&name)`
is_running(st, name) == st.tests[name].state = "Running"

\* TestRunState::handle_line at time t (milliseconds): the state after it and
\* the Option<ProcessOutput> it returns.
handle_line(st, line, t) ==
    LET name == line.name IN
    CASE line.type = "TestStart" ->
            [st |-> [st EXCEPT !.tests[name] = Running(t)],
             output |-> ProcessOutput("TestStarted", name, NoOutput.result, 0,
                                      NoOutput.error, None(NoLocation))]
      [] line.type = "TestResult" ->
            IF is_running(st, name)
            THEN LET duration_ms == (t - st.tests[name].started_at) * 1000
                     error == st.pending_errors[name]
                     result == create_test_result(name, line.status)
                 IN [st |-> [st EXCEPT
                               !.pending_errors = pending_errors_remove(@, name),
                               !.tests[name] = Completed(duration_ms, line.status)],
                     output |->
                       CASE line.status = "Failed" ->
                               ProcessOutput("TestFailed", name, result, duration_ms,
                                   IF error.some THEN to_string(error.v)
                                   ELSE NoOutput.error,
                                   IF error.some THEN error.v.location
                                   ELSE None(NoLocation))
                         [] line.status = "Passed" ->
                               ProcessOutput("TestPassed", name, result, duration_ms,
                                   NoOutput.error, None(NoLocation))
                         [] OTHER ->
                               ProcessOutput("TestSkipped", name, result, 0,
                                   NoOutput.error, None(NoLocation))]
            ELSE [st |-> st, output |-> NoOutput]
      [] line.type = "Panic" ->
            [st |-> [st EXCEPT !.pending_errors[line.name] =
                        Some([location |->
                                  Some(IF line.location.some THEN line.location.v
                                       ELSE NoLocation),
                              message |-> Some(line.message)])],
             output |-> NoOutput]
      [] OTHER -> [st |-> st, output |-> NoOutput]

RECURSIVE finalize_pending_errors(_, _)
\* TestRunState::finalize_pending_errors: the state and the test results after it.
finalize_pending_errors(st, results) ==
    IF results = <<>> THEN [st |-> st, test_results |-> <<>>]
    ELSE LET result == Head(results)
             pending == IF result.name \in TestNames
                        THEN st.pending_errors[result.name]
                        ELSE None(NewErrorInfo)
             first == IF pending.some /\ result.error.kind = "None"
                      THEN [result EXCEPT
                              !.error = test_execution(to_string(pending.v))]
                      ELSE result
             rest == finalize_pending_errors(
                        IF pending.some
                        THEN [st EXCEPT !.pending_errors =
                                  pending_errors_remove(@, result.name)]
                        ELSE st,
                        Tail(results))
         IN [rest EXCEPT !.test_results = <<first>> \o @]

\* The lines of the child process: text lines on stdout, JSON lines on stdout,
\* and panic groups on stderr (whole, and cut after the header).
StdoutLines ==
    {<<"test", n>> : n \in TestNames}
    \cup {<<"test", n, "...", w>> : n \in TestNames, w \in {"ok", "FAILED"}}
    \cup {<<"test", <<"t">>, "...", "ignored">>,
          <<"running", "1", "test">>, <<"warning:", "unused">>}

JsonLines ==
    {[type |-> Some("test"), event |-> Some(e), name |-> Some(n),
      exec_time |-> IF e = "ok" THEN Some(10) ELSE None(0)] :
        e \in {"started", "ok"}, n \in TestNames}
    \cup {[type |-> Some("test"), event |-> Some(e), name |-> Some(<<"t">>),
           exec_time |-> None(0)] : e \in {"ok", "failed", "ignored"}}
    \cup {[type |-> Some("test"), event |-> Some("ok"), name |-> None(<<>>),
           exec_time |-> Some(10)]}

StderrGroups ==
    {<<"thread", n, "panicked at", "src/lib.rs", "10", "5", ":\n",
       "assertion failed">> : n \in TestNames}
    \cup {<<"thread", <<"t">>, "panicked at", "src/lib.rs", "10", "5", ":">>}

\* The most lines handled by one tracker, and the most clock ticks (of ten
\* milliseconds each).
MaxLines == 4
MaxTicks == 1

TrackerInit ==
    /\ trk = NewTestRunState
    /\ events = <<>>
    /\ test_results = <<>>
    /\ now = 0
    /\ fed = <<>>

(***************************************************************************)
(* CargoTestRunner::execute_tests  (crates/core/src/runners/cargo/mod.rs)  *)
(***************************************************************************)

\* create_suite_result(&bin.name, &test_results), the statuses of the collected
\* test results being sts.
create_suite_result(suite_name, sts) == BuildSuite(NewSuiteResult(suite_name), sts)

\* A SuiteResult that carries the error itself and holds no test result.
create_failed_suite_result_no_test(suite_name, error) ==
    suite_finish(NewSuiteResult(suite_name), error)

\* create_failed_suite_result: one failed test, `<suite_name>_system_error`.
create_failed_suite_result(suite_name, error) ==
    add_test_result(NewSuiteResult(suite_name),
                    FinishedTestResult(<<suite_name, "_system_error">>, "Failed", error))

\* A body of the loop that goes on after a suite that did not pass.
execute_step_no_break(result, suite_result, fail_fast) ==
    [result |-> add_suite_result(result, suite_result), break |-> FALSE]

\* The body of the loop of execute_tests once exec_test has returned: the
\* RunResult after it, and whether the loop is left.
execute_step(result, suite_result, fail_fast) ==
    LET all_passed == suite_all_passed(suite_result)
        with_suite == add_suite_result(result, suite_result)
    IN IF fail_fast /\ ~all_passed
       THEN [result |-> run_finish(with_suite, "TestExecution"), break |-> TRUE]
       ELSE [result |-> with_suite, break |-> FALSE]

\* The most executables given to execute_tests; the executables are named by
\* their place in the list.
MaxExecutables == 3

\* What exec_test hands back for the statuses of the tests of an executable:
\* a test result made by create_test_result is Passed, Failed or Skipped.
ExecStatusSeqs ==
    UNION {[1..n -> {"Passed", "Failed", "Skipped"}] : n \in 0..MaxTests}

\* Before execute_tests is called. The fields past `result` are a record of the
\* call: the executables spawned, whether each SuiteResult was all_passed, and
\* the SuiteResult made for each executable exec_test failed on.
RunnerInit ==
    runner = [pc |-> "idle", fail_fast |-> FALSE, executables |-> <<>>, i |-> 1,
              result |-> NewRunResult, spawned |-> <<>>, passed |-> <<>>,
              system_errors |-> <<>>]

(***************************************************************************)
(* Hooks and SuiteHooks  (crates/core/src/internal/hook.rs, suite.rs)      *)
(***************************************************************************)

\* HookType, each stage by the text its Display writes.
HookType ==
    {"before_all", "after_all", "before_each", "after_each",
     "before_setup", "after_teardown"}

\* The four lists of a SuiteHooks.
SuiteHookLists == {"before_all", "after_all", "before_each", "after_each"}

\* The names hooks are registered under.
HookNames == {"h1", "h2"}

\* Hooks::new, SuiteHooks::new: every list empty.
NewHooks == [t \in HookType |-> <<>>]
NewSuiteHooks == [t \in SuiteHookLists |-> <<>>]

\* Hooks::before_all and the like, SuiteHooks::before_all and the like: the
\* hook is pushed onto the list of its stage.
push_hook(h, list, name) == [h EXCEPT ![list] = Append(@, name)]

\* Error::hook(hook_type, format!("Hook '{}' <text>: {}", hook.name, e))
HookError(hook_type, name, text) ==
    [kind |-> "Hook", hook_type |-> hook_type,
     message |-> <<"Hook '", name, "' ", text, ": ", "e">>]

NoHookError == [kind |-> "None", hook_type |-> "", message |-> <<>>]

\* A loop that calls every hook of the list and reports the first failure
\* once all of them have run.
hooks_loop_run_all(hooks, i, failing, hook_type, text, ran) ==
    LET bad == {j \in DOMAIN hooks : j >= i /\ j \in failing}
        all == ran \o SubSeq(hooks, i, Len(hooks))
    IN IF bad = {} THEN [ran |-> all, tag |-> "Ok", err |-> NoHookError]
       ELSE LET j == CHOOSE j \in bad : \A k \in bad : j <= k
            IN [ran |-> all, tag |-> "Err",
                err |-> HookError(hook_type, hooks[j], text)]

RECURSIVE hooks_loop(_, _, _, _, _, _)

\* `for hook in hooks { hook.execute(context.clone()).map_err(..)?; } Ok(())`,
\* from the i-th hook on. failing holds the places of the hooks whose function
\* returns Err when called; ran collects the names of the hooks called.
hooks_loop(hooks, i, failing, hook_type, text, ran) ==
    IF i > Len(hooks) THEN [ran |-> ran, tag |-> "Ok", err |-> NoHookError]
    ELSE IF i \in failing
         THEN [ran |-> Append(ran, hooks[i]), tag |-> "Err",
               err |-> HookError(hook_type, hooks[i], text)]
         ELSE hooks_loop(hooks, i + 1, failing, hook_type, text,
                         Append(ran, hooks[i]))

\* Hooks::execute(hook_type, context)
hooks_execute(h, hook_type, failing) ==
    hooks_loop(h[hook_type], 1, failing, hook_type, "failed", <<>>)

\* SuiteHooks::execute_hooks(hooks, context, hook_type)
execute_hooks(hooks, failing, hook_type) ==
    hooks_loop(hooks, 1, failing, hook_type, "execution failed", <<>>)

\* The most hooks registered, with a Hooks and a SuiteHooks together.
MaxHooks == 3

NoExecute ==
    [called |-> FALSE, hook_type |-> "", hooks |-> <<>>, failing |-> {},
     out |-> [ran |-> <<>>, tag |-> "Ok", err |-> NoHookError]]

HooksInit ==
    hk = [hooks |-> NewHooks, suite_hooks |-> NewSuiteHooks, last |-> NoExecute]

(***************************************************************************)
(* FixtureRegistry  (crates/core/src/fixtures/dependency.rs)               *)
(***************************************************************************)

\* FixtureRegistry::new. The two instance tables hold the names that have an
\* instance; defs is graph.fixtures, by name.
NewFixtureRegistry ==
    [graph |-> NewGraph, defs |-> <<>>,
     suite_instances |-> {}, test_instances |-> {}]

\* FixtureRegistry::register_fixture
register_fixture(r, name, definition) ==
    [r EXCEPT !.graph = add_fixture(@, name, definition.dependencies),
              !.defs = [n \in DOMAIN @ \cup {name} |->
                            IF n = name THEN definition ELSE @[n]]]

\* The instance table of the registry for a scope.
InstancesOf(scope) ==
    IF scope = "Suite" THEN "suite_instances" ELSE "test_instances"

RECURSIVE registry_setup_loop(_, _, _, _, _, _)

\* The loop of setup_suite_fixtures and of setup_test_fixtures over the
\* resolved order: a fixture of the scope that has a setup function is set up
\* and its instance kept; the first setup that fails ends the loop.
registry_setup_loop(r, fixture_order, i, scope, failing, ran) ==
    IF i > Len(fixture_order) THEN [r |-> r, ran |-> ran, tag |-> "Ok"]
    ELSE LET fixture_name == fixture_order[i]
             fixture == r.defs[fixture_name]
         IN IF fixture.scope = scope /\ fixture.setup
            THEN IF fixture_name \in failing
                 THEN [r |-> r, ran |-> Append(ran, fixture_name), tag |-> "Err"]
                 ELSE registry_setup_loop(
                          [r EXCEPT ![InstancesOf(scope)] = @ \cup {fixture_name}],
                          fixture_order, i + 1, scope, failing,
                          Append(ran, fixture_name))
            ELSE registry_setup_loop(r, fixture_order, i + 1, scope, failing, ran)

\* setup_suite_fixtures / setup_test_fixtures for the scope given.
registry_setup(r, scope, failing) ==
    LET fixture_order == resolve_order(r.graph) IN
    IF fixture_order.tag = "Err" THEN [r |-> r, ran |-> <<>>, tag |-> "Err"]
    ELSE registry_setup_loop(r, fixture_order.value, 1, scope, failing, <<>>)

\* FixtureRegistry::setup_suite_fixtures
setup_suite_fixtures(r, failing) == registry_setup(r, "Suite", failing)

\* FixtureRegistry::setup_test_fixtures
setup_test_fixtures(r, failing) == registry_setup(r, "Test", failing)

RECURSIVE registry_teardown_loop(_, _, _, _, _, _)

\* The loop of teardown_test_fixtures and of teardown_suite_fixtures over the
\* reversed order: the instance of a fixture of the scope is removed and given
\* to the teardown function, if there is one; the first teardown that fails
\* ends the loop.
registry_teardown_loop(r, fixture_order, i, scope, failing, ran) ==
    IF i > Len(fixture_order) THEN [r |-> r, ran |-> ran, tag |-> "Ok"]
    ELSE LET fixture_name == fixture_order[i]
             fixture == r.defs[fixture_name]
             removed == [r EXCEPT ![InstancesOf(scope)] = @ \ {fixture_name}]
         IN IF fixture.scope = scope /\ fixture_name \in r[InstancesOf(scope)]
            THEN IF fixture.teardown
                 THEN IF fixture_name \in failing
                      THEN [r |-> removed, ran |-> Append(ran, fixture_name),
                            tag |-> "Err"]
                      ELSE registry_teardown_loop(removed, fixture_order, i + 1,
                               scope, failing, Append(ran, fixture_name))
                 ELSE registry_teardown_loop(removed, fixture_order, i + 1,
                          scope, failing, ran)
            ELSE registry_teardown_loop(r, fixture_order, i + 1, scope,
                                        failing, ran)

\* teardown_suite_fixtures / teardown_test_fixtures for the scope given.
registry_teardown(r, scope, failing) ==
    LET fixture_order == resolve_order(r.graph) IN
    IF fixture_order.tag = "Err" THEN [r |-> r, ran |-> <<>>, tag |-> "Err"]
    ELSE registry_teardown_loop(r, Reverse(fixture_order.value), 1, scope,
                                failing, <<>>)

\* FixtureRegistry::teardown_test_fixtures
teardown_test_fixtures(r, failing) == registry_teardown(r, "Test", failing)

\* FixtureRegistry::teardown_suite_fixtures
teardown_suite_fixtures(r, failing) == registry_teardown(r, "Suite", failing)

(***************************************************************************)
(* TestSuite  (crates/core/src/suite.rs)                                   *)
(***************************************************************************)

\* A Test: its name and the only and ignore attributes (the struct is declared
\* in crates/core/src/test.rs).
Test(name, only, ignore) == [name |-> name, only |-> only, ignore |-> ignore]

\* Test::is_only, Test::should_ignore
is_only(test) == test.only
should_ignore(test) == test.ignore

\* TestResult::passed
passed(test_result) == test_result.status = "Passed"

\* TestSuite::new
NewTestSuite ==
    [only |-> FALSE, tests |-> <<>>, hooks |-> NewSuiteHooks,
     fixtures |-> NewFixtureRegistry]

\* TestSuite::add_test: IndexMap::insert under the name of the test, a test of
\* the same name being replaced where it stands.
add_test(tests, test) ==
    IF \E i \in DOMAIN tests : tests[i].name = test.name
    THEN [i \in DOMAIN tests |->
              IF tests[i].name = test.name THEN test ELSE tests[i]]
    ELSE Append(tests, test)

\* A selection that leaves the only marks of the tests out of account.
get_runnable_tests_no_only(suite_only, tests) ==
    IF suite_only THEN tests
    ELSE SelectSeq(tests, LAMBDA test : ~should_ignore(test))

\* TestSuite::get_runnable_tests
get_runnable_tests(suite_only, tests) ==
    IF suite_only THEN tests
    ELSE LET only_tests == SelectSeq(tests, is_only)
         IN IF only_tests # <<>> THEN only_tests
            ELSE SelectSeq(tests, LAMBDA test : ~should_ignore(test))

\* An execution that goes on to the before_all hooks whatever the setup of
\* the suite-scoped fixtures returned.
suite_setup_done_goes_on(result, out) ==
    [result |-> result, pc |-> "before_all"]

\* execute, once setup_suite_fixtures has returned: an Err finishes the
\* SuiteResult with it and the SuiteResult is returned.
suite_setup_done(result, out) ==
    IF out.tag = "Err"
    THEN [result |-> suite_finish(result, "Fixture"), pc |-> "returned"]
    ELSE [result |-> result, pc |-> "before_all"]

\* An execution that goes on to the tests whatever a stage of hooks returned.
suite_hooks_done_goes_on(result, out, next) ==
    [result |-> result, pc |-> next]

\* execute, once the before_all or the after_all hooks have returned: an Err
\* finishes the SuiteResult with it and the SuiteResult is returned; next is
\* where the execution goes otherwise.
suite_hooks_done(result, out, next) ==
    IF out.tag = "Err"
    THEN [result |-> suite_finish(result, out.err.kind), pc |-> "returned"]
    ELSE [result |-> result, pc |-> next]

\* An execution that records the failed setup and goes on with the test.
test_setup_done_goes_on(result, out, test_name) ==
    IF out.tag = "Err"
    THEN [result |-> add_test_result(result,
                         FinishedTestResult(test_name, "Failed", "Fixture")),
          continue |-> FALSE]
    ELSE [result |-> result, continue |-> FALSE]

\* execute, once setup_test_fixtures has returned for a test: an Err is
\* recorded as a Failed TestResult and the loop continues with the next test.
test_setup_done(result, out, test_name) ==
    IF out.tag = "Err"
    THEN [result |-> add_test_result(result,
                         FinishedTestResult(test_name, "Failed", "Fixture")),
          continue |-> TRUE]
    ELSE [result |-> result, continue |-> FALSE]

\* An execution that records the failed hook and goes on with the test.
before_each_done_goes_on(result, out, test_name) ==
    IF out.tag = "Err"
    THEN [result |-> add_test_result(result,
                         FinishedTestResult(test_name, "Failed", out.err.kind)),
          continue |-> FALSE]
    ELSE [result |-> result, continue |-> FALSE]

\* execute, once the before_each hooks have returned for a test: an Err is
\* recorded as a Failed TestResult, the test-scoped fixtures are torn down and
\* the loop continues with the next test.
before_each_done(result, out, test_name) ==
    IF out.tag = "Err"
    THEN [result |-> add_test_result(result,
                         FinishedTestResult(test_name, "Failed", out.err.kind)),
          continue |-> TRUE]
    ELSE [result |-> result, continue |-> FALSE]

\* A failure of the after_each hooks that replaces whatever the test ended as.
after_each_done_overwrites(test_result, out) ==
    IF out.tag = "Err"
    THEN FinishedTestResult(test_result.name, "Failed", out.err.kind)
    ELSE test_result

\* execute, once the after_each hooks have returned for a test: an Err
\* finishes the TestResult again, as Failed, if the test had passed.
after_each_done(test_result, out) ==
    IF out.tag = "Err" /\ passed(test_result)
    THEN FinishedTestResult(test_result.name, "Failed", out.err.kind)
    ELSE test_result

\* A teardown whose failure loses the TestResult of the test.
test_teardown_done_drops_result(result, test_result, out) ==
    IF out.tag = "Err" THEN result ELSE add_test_result(result, test_result)

\* A teardown whose failure is recorded as the outcome of the test.
test_teardown_done_fails_test(result, test_result, out) ==
    IF out.tag = "Err"
    THEN add_test_result(result,
             FinishedTestResult(test_result.name, "Failed", "Fixture"))
    ELSE add_test_result(result, test_result)

\* execute, once teardown_test_fixtures has returned for a test: an Err is
\* printed as a warning, and the TestResult is added to the SuiteResult.
test_teardown_done(result, test_result, out) ==
    add_test_result(result, test_result)

\* The names tests and fixtures of a suite are given.
SuiteTestNames == {"t1", "t2"}
RegNames == {"A", "B"}

\* The definitions registered with the registry of a suite: of suite or test
\* scope, with no dependency or with a dependency on A, with a setup function
\* and with or without a teardown function.
RegDefinitions ==
    {FixtureDefinition(scope, deps, TRUE, teardown) :
        scope \in {"Suite", "Test"}, deps \in {<<>>, <<"A">>},
        teardown \in BOOLEAN}

\* The statuses Test::execute finishes a TestResult with, and its error.
BodyStatus == {"Passed", "Failed", "Skipped"}
BodyError(status) == IF status = "Failed" THEN "TestExecution" ELSE "None"

\* The most tests, hooks and fixtures a suite is built with, all together.
MaxBuild == 3

\* One entry of the record of an execution: the step, the test it was taken
\* for, the fixture or hook functions it called, how it ended, and for a test
\* body the status of its TestResult.
Step(step, test, ran, ok, status) ==
    [step |-> step, test |-> test, ran |-> ran, ok |-> ok, status |-> status]

NoTestResult == FinishedTestResult("", "Skipped", "None")

SuiteInit ==
    ts = [suite |-> NewTestSuite, pc |-> "build",
          result |-> NewSuiteResult("s"), runnable |-> <<>>, i |-> 1,
          test_result |-> NoTestResult, trace |-> <<>>]

(***************************************************************************)
(* DefaultTestRunner  (crates/core/src/runners/thin.rs, runners/mod.rs)    *)
(***************************************************************************)

\* str::contains: the pattern is a run of consecutive characters of s.
Contains(s, pattern) ==
    \E k \in 0..(Len(s) - Len(pattern)) :
        SubSeq(s, k + 1, k + Len(pattern)) = pattern

\* RunnerConfig: fail_fast and the six filter lists.
RunnerConfig(fail_fast, ip, ep, it, et, ic, ec) ==
    [fail_fast |-> fail_fast,
     include_patterns |-> ip, exclude_patterns |-> ep,
     include_tags |-> it, exclude_tags |-> et,
     include_categories |-> ic, exclude_categories |-> ec]

\* What filter_suites reads of a TestSuite: its name (TestSuite::new gives
\* meta.name the same text) and its attributes.
SuiteEntry(name, ignore, tags, category) ==
    [name |-> name, ignore |-> ignore, tags |-> tags, category |-> category]

\* The closure of TestRunner::filter_suites: whether one suite is kept.
suite_passes_filters(config, s) ==
    /\ ~s.ignore
    /\ (config.include_patterns # {} =>
            \E p \in config.include_patterns : Contains(s.name, p))
    /\ (config.exclude_patterns # {} =>
            ~\E p \in config.exclude_patterns : Contains(s.name, p))
    /\ (config.include_tags # {} =>
            \E t \in config.include_tags : t \in s.tags)
    /\ (config.exclude_tags # {} =>
            ~\E t \in config.exclude_tags : t \in s.tags)
    /\ (config.include_categories # {} =>
            s.category.some /\ s.category.v \in config.include_categories)
    /\ (config.exclude_categories # {} =>
            ~(s.category.some /\ s.category.v \in config.exclude_categories))

\* TestRunner::filter_suites: the suites kept, in the order given.
filter_suites(config, suites) ==
    SelectSeq(suites, LAMBDA s : suite_passes_filters(config, s))

\* A loop body that also ends the run when a suite ended with an error.
thin_run_step_stops_on_error(result, out, fail_fast) ==
    IF out.tag = "Ok"
    THEN LET stop == (fail_fast /\ ~suite_all_passed(out.value))
                     \/ out.value.error # "None"
             added_to == add_suite_result(result, out.value)
         IN IF stop
            THEN [result |-> run_finish(added_to, "TestExecution"),
                  returned |-> TRUE]
            ELSE [result |-> added_to, returned |-> FALSE]
    ELSE [result |-> run_finish(result, out.err), returned |-> TRUE]

\* The body of the loop of DefaultTestRunner::run for what suite.execute()
\* gave: the RunResult after it, and whether run returns from inside the loop.
thin_run_step(result, out, fail_fast) ==
    IF out.tag = "Ok"
    THEN LET should_fail_fast == fail_fast /\ ~suite_all_passed(out.value)
             added_to == add_suite_result(result, out.value)
         IN IF should_fail_fast
            THEN [result |-> run_finish(added_to, "TestExecution"),
                  returned |-> TRUE]
            ELSE [result |-> added_to, returned |-> FALSE]
    ELSE [result |-> run_finish(result, out.err), returned |-> TRUE]

\* The suites handed to a run: at most MaxThinSuites of them.
\* A suite is plain (no tag, no category) or marked (tag "slow", category "db").
MaxThinSuites == 3
ThinSuiteNames == {<<"a">>, <<"a", "b">>}
ThinSuites ==
    {SuiteEntry(n, ig, {}, None("")) : n \in ThinSuiteNames, ig \in BOOLEAN}
    \cup {SuiteEntry(n, ig, {"slow"}, Some("db")) :
             n \in ThinSuiteNames, ig \in BOOLEAN}

\* The configurations run is called with: fail_fast either way, and no filter
\* or one of the six.
ThinConfigs ==
    {RunnerConfig(ff, {}, {}, {}, {}, {}, {}) : ff \in BOOLEAN}
    \cup {RunnerConfig(ff, {<<"b">>}, {}, {}, {}, {}, {}) : ff \in BOOLEAN}
    \cup {RunnerConfig(ff, {}, {<<"b">>}, {}, {}, {}, {}) : ff \in BOOLEAN}
    \cup {RunnerConfig(ff, {}, {}, {"slow"}, {}, {}, {}) : ff \in BOOLEAN}
    \cup {RunnerConfig(ff, {}, {}, {}, {"slow"}, {}, {}) : ff \in BOOLEAN}
    \cup {RunnerConfig(ff, {}, {}, {}, {}, {"db"}, {}) : ff \in BOOLEAN}
    \cup {RunnerConfig(ff, {}, {}, {}, {}, {}, {"db"}) : ff \in BOOLEAN}

\* What TestSuite::execute returns for a suite: always Ok, with a SuiteResult
\* that holds the results of the tests that ran and the error it finished with.
SuiteOutcomes(name) ==
    {Ok(suite_finish(BuildSuite(NewSuiteResult(name), sts), e)) :
        sts \in {<<>>, <<"Passed">>, <<"Failed">>},
        e \in {"None", "Fixture", "Hook"}}

ThinInit ==
    thin = [pc |-> "idle", config |-> RunnerConfig(FALSE, {}, {}, {}, {}, {}, {}),
            suites |-> <<>>, suites_to_run |-> <<>>, i |-> 1,
            result |-> NewRunResult, executed |-> <<>>]

(***************************************************************************)
(* The tracker of the cargo runner  (crates/core/src/runners/cargo/        *)
(* types.rs, utils.rs). Its TestOutputLine has PanicLocation and           *)
(* PanicMessage where the other tracker has Panic.                         *)
(***************************************************************************)

\* runners/cargo parse_error_output: alt((parse_panic_location,
\* parse_panic_message)). The location needs `<file>:<line>:<column>` after
\* `panicked at`; the message needs a newline after its text.
cargo_parse_error_output(input) ==
    IF Len(input) >= 6 /\ input[1] = "thread" /\ input[3] = "panicked at"
       /\ input[5] \in DOMAIN ParseU32 /\ input[6] \in DOMAIN ParseU32
    THEN TestOutputLine("PanicLocation", input[2], "", None(0), "",
                        Some(SourceLocation(input[4], ParseU32[input[5]],
                                            ParseU32[input[6]])))
    ELSE IF Len(input) >= 5 /\ input[1] = "thread" /\ input[3] = "panicked at"
            /\ input[5] = "\n"
    THEN TestOutputLine("PanicMessage", <<>>, "", None(0), input[4],
                        None(NoLocation))
    ELSE NoLine

\* The names that have an entry in pending_errors.
pending_keys(st) == {n \in TestNames : st.pending_errors[n].some}

\* The PanicMessage arm of handle_line: `pending_errors.iter_mut().last()` is
\* the entry the HashMap iterates last, `last` here, and with an empty map
\* there is none and the message is dropped.
on_panic_message(st, message, last) ==
    IF last \in pending_keys(st)
    THEN [st EXCEPT !.pending_errors[last].v.message = Some(message)]
    ELSE st

\* runners/cargo TestRunState::handle_line at time t, where `last` is the entry
\* the pending_errors map iterates last.
cargo_handle_line(st, line, t, last) ==
    LET name == line.name IN
    CASE line.type = "TestStart" ->
            [st |-> [st EXCEPT !.tests[name] = Running(t)],
             output |-> ProcessOutput("TestStarted", name, NoOutput.result, 0,
                                      NoOutput.error, None(NoLocation))]
      [] line.type = "TestResult" ->
            IF is_running(st, name)
            THEN LET duration_ms == (t - st.tests[name].started_at) * 1000
                     error == st.pending_errors[name]
                     result == create_test_result(name, line.status)
                 IN [st |-> [st EXCEPT
                               !.pending_errors = pending_errors_remove(@, name),
                               !.tests[name] = Completed(duration_ms, line.status)],
                     output |->
                       CASE line.status = "Failed" ->
                               ProcessOutput("TestFailed", name, result, duration_ms,
                                   IF error.some THEN to_string(error.v)
                                   ELSE NoOutput.error,
                                   None(NoLocation))
                         [] line.status = "Passed" ->
                               ProcessOutput("TestPassed", name, result, duration_ms,
                                   NoOutput.error, None(NoLocation))
                         [] OTHER ->
                               ProcessOutput("TestSkipped", name, result, 0,
                                   NoOutput.error, None(NoLocation))]
            ELSE [st |-> st, output |-> NoOutput]
      [] line.type = "PanicLocation" ->
            [st |-> [st EXCEPT !.pending_errors[name] =
                        Some([(IF @.some THEN @.v ELSE NewErrorInfo)
                                 EXCEPT !.location = line.location])],
             output |-> NoOutput]
      [] line.type = "PanicMessage" ->
            [st |-> on_panic_message(st, line.message, last), output |-> NoOutput]
      [] OTHER -> [st |-> st, output |-> NoOutput]

\* The entries `iter_mut().last()` can yield: any key of the map (the order of
\* a HashMap is arbitrary), and when the map is empty none, written as any name.
LastKeys(st) == IF pending_keys(st) = {} THEN {<<"t">>} ELSE pending_keys(st)

\* The lines of stderr, one at a time: the header of a panic, its message, and
\* a header followed by text and a newline in place of a location.
CargoStderrLines ==
    {<<"thread", n, "panicked at", "src/lib.rs", "10", "5", ":">> : n \in TestNames}
    \cup {<<"assertion failed">>,
          <<"thread", <<"t">>, "panicked at", "boom", "\n">>}

\* The most lines handled by one cargo tracker.
MaxCargoLines == 3

CargoTrackerInit ==
    ctk = [st |-> NewTestRunState, fed |-> <<>>, now |-> 0]

(***************************************************************************)
(* LineBuffer  (crates/core/src/misc.rs, runners/cargo/types.rs)           *)
(*                                                                         *)
(* A stream is a sequence of bytes: "a" and "\n" are one-byte characters,  *)
(* "C3" "A9" are the two bytes of one character, written "e'" when decoded,*)
(* and any other word stands for the bytes of that word. "?" is U+FFFD.    *)
(***************************************************************************)

RECURSIVE from_utf8_lossy(_)
\* String::from_utf8_lossy of the bytes of one read: a whole character decodes
\* to itself, a byte of a character cut off from the rest to U+FFFD.
from_utf8_lossy(bytes) ==
    IF bytes = <<>> THEN <<>>
    ELSE IF Len(bytes) >= 2 /\ bytes[1] = "C3" /\ bytes[2] = "A9"
    THEN <<"e'">> \o from_utf8_lossy(Tail(Tail(bytes)))
    ELSE IF Head(bytes) \in {"C3", "A9"}
    THEN <<"?">> \o from_utf8_lossy(Tail(bytes))
    ELSE <<Head(bytes)>> \o from_utf8_lossy(Tail(bytes))

\* `self.partial.find('\n')`: the place of the first newline, 0 for None.
find_newline(partial) ==
    IF \E k \in DOMAIN partial : partial[k] = "\n"
    THEN CHOOSE k \in DOMAIN partial :
            partial[k] = "\n" /\ \A j \in 1..(k - 1) : partial[j] # "\n"
    ELSE 0

\* What one `self.reader.read(&mut self.buffer)` gives: Ok(n) with the n bytes
\* read (Ok(0) when there are none), WouldBlock, or another error.
ReadOk(bytes) == [tag |-> "Ok", bytes |-> bytes]
WouldBlock == [tag |-> "WouldBlock", bytes |-> <<>>]
ReadErr == [tag |-> "Err", bytes |-> <<>>]

\* What read_line returns: Ok(Some(line)), Ok(None) or Err.
LineSome(line) == [tag |-> "Some", line |-> line]
LineNone == [tag |-> "None", line |-> <<>>]
LineErr == [tag |-> "Err", line |-> <<>>]

RECURSIVE read_line(_, _)
\* LineBuffer::read_line, given what the reads of its loop return, in order:
\* what it returns, the partial line it keeps, and the reads it did not make.
read_line(partial, reads) ==
    LET pos == find_newline(partial) IN
    IF pos > 0
    THEN [ret |-> LineSome(SubSeq(partial, 1, pos - 1)),
          partial |-> SubSeq(partial, pos + 1, Len(partial)),
          reads |-> reads]
    ELSE IF reads = <<>> \/ Head(reads).tag = "WouldBlock"
    THEN [ret |-> LineNone, partial |-> partial,
          reads |-> IF reads = <<>> THEN reads ELSE Tail(reads)]
    ELSE IF Head(reads).tag = "Err"
    THEN [ret |-> LineErr, partial |-> partial, reads |-> Tail(reads)]
    ELSE IF Head(reads).bytes = <<>>
    THEN IF partial # <<>>
         THEN [ret |-> LineSome(partial), partial |-> <<>>,
               reads |-> Tail(reads)]
         ELSE [ret |-> LineNone, partial |-> <<>>, reads |-> Tail(reads)]
    ELSE read_line(partial \o from_utf8_lossy(Head(reads).bytes), Tail(reads))

\* LineBuffer::flush_remaining
flush_remaining(partial) ==
    IF partial # <<>>
    THEN [ret |-> LineSome(partial), partial |-> <<>>]
    ELSE [ret |-> LineNone, partial |-> <<>>]

\* The bytes of a stream, and the longest stream.
Bytes == {"a", "\n", "C3", "A9"}
MaxStream == 4
Streams == UNION {[1..n -> Bytes] : n \in 0..MaxStream}

RECURSIVE Chunkings(_)
\* The ways a reader delivers the bytes of s: the reads that a call of
\* read_line can make, Ok(n) for a chunk of what is left and WouldBlock when
\* the writer has written no more yet, up to the read that ends the call.
Chunkings(s) ==
    {<<>>, <<WouldBlock>>}
    \cup (IF s = <<>> THEN {<<ReadOk(<<>>)>>} ELSE {})
    \cup UNION {{<<ReadOk(SubSeq(s, 1, n))>> \o c :
                    c \in Chunkings(SubSeq(s, n + 1, Len(s)))} :
                n \in 1..Len(s)}

\* No LineBuffer yet; LineBuffer::new makes one over a reader.
LineBufferInit ==
    lb = [made |-> FALSE, stream |-> <<>>, rest |-> <<>>, partial |-> <<>>,
          lines |-> <<>>, eof |-> FALSE, flushed |-> FALSE]

(***************************************************************************)
(* LineBuffer::read_panic_group  (crates/core/src/misc.rs)                 *)
(* A line is the sequence of its words; the empty line has none.           *)
(***************************************************************************)

\* `trimmed.is_empty()`
is_blank(line) == line = <<>>

\* The line starts with the note about RUST_BACKTRACE=1 or with
\* "stack backtrace:".
is_backtrace_note(line) ==
    line # <<>> /\ line[1] \in {"note: run with RUST_BACKTRACE=1",
                                "stack backtrace:"}

\* `trimmed.starts_with("thread '") && trimmed.contains("' panicked at ")`
is_panic_header(line) ==
    Len(line) >= 3 /\ line[1] = "thread" /\ line[3] = "panicked at"

RECURSIVE join_newline(_)
\* `lines.join("\n")`: a colon at the end of a line and the newline after it
\* make the word ":\n" that the panic parser reads.
join_newline(lines) ==
    IF lines = <<>> THEN <<>>
    ELSE IF Len(lines) = 1 THEN lines[1]
    ELSE LET first == lines[1] IN
         IF first # <<>> /\ first[Len(first)] = ":"
         THEN SubSeq(first, 1, Len(first) - 1) \o <<":\n">>
                  \o join_newline(Tail(lines))
         ELSE first \o <<"\n">> \o join_newline(Tail(lines))

RECURSIVE panic_group_loop(_, _, _, _)
\* The loop of read_panic_group with n turns left: avail are the lines that
\* read_line still returns (None after them), lines the ones collected.
panic_group_loop(avail, lines, found_panic, n) ==
    IF n = 0 \/ avail = <<>>
    THEN [avail |-> avail, lines |-> lines, found_panic |-> found_panic]
    ELSE LET line == Head(avail)
             found == found_panic \/ is_panic_header(line)
             pushed == Append(lines, line)
         IN IF is_blank(line)
            THEN panic_group_loop(Tail(avail), lines, found_panic, n - 1)
            ELSE IF is_backtrace_note(line)
            THEN [avail |-> Tail(avail), lines |-> lines,
                  found_panic |-> found_panic]
            ELSE IF found /\ Len(pushed) >= 2
            THEN [avail |-> Tail(avail), lines |-> pushed, found_panic |-> found]
            ELSE panic_group_loop(Tail(avail), pushed, found, n - 1)

\* LineBuffer::read_panic_group: the lines left to read, the lines collected,
\* and the Option<String> returned.
read_panic_group(avail) ==
    LET l == panic_group_loop(avail, <<>>, FALSE, 4)
    IN [avail |-> l.avail, lines |-> l.lines,
        ret |-> IF Len(l.lines) >= 2 /\ l.found_panic
                THEN Some(join_newline(l.lines)) ELSE None(<<>>)]

\* The lines of stderr: the header of a panic, its message, an empty line, the
\* two notes that end a group, and a line of something else.
StderrLines ==
    {<<"thread", <<"t">>, "panicked at", "src/lib.rs", "10", "5", ":">>,
     <<"assertion failed">>, <<>>,
     <<"note: run with RUST_BACKTRACE=1">>, <<"stack backtrace:">>,
     <<"warning:", "unused">>}

\* The most lines on the stderr of one child.
MaxStderrLines == 4

PanicGroupInit ==
    pg = [made |-> FALSE, stderr |-> <<>>, avail |-> <<>>, calls |-> <<>>]

(***************************************************************************)
(* CargoTestRunner::exec_test  (crates/core/src/runners/cargo/mod.rs)      *)
(*                                                                         *)
(* The child writes words and newlines to its two pipes. A read takes what *)
(* the pipe holds; on an empty pipe it gives Ok(0) when the child has      *)
(* exited and WouldBlock while it runs. The clock stands at 0.             *)
(* poll reports the tokens that the loop of exec_test matches on,          *)
(* STDOUT_TOKEN and STDERR_TOKEN; exec_test itself makes the two SourceFd  *)
(* and leaves their registration with the poller out.                      *)
(***************************************************************************)

\* A line as the parsers of the model take it: the word that is the name of
\* the test t is the sequence of the segments of its path.
path_segments(line) ==
    [k \in DOMAIN line |-> IF line[k] = "t" THEN <<"t">> ELSE line[k]]

RECURSIVE read_lines(_, _, _)
\* `while let Some(line) = buf.read_line()?`: the lines the loop takes, the
\* partial line left in the buffer and what is left in the pipe.
read_lines(partial, pipe, closed) ==
    LET reads == (IF pipe # <<>> THEN <<ReadOk(pipe)>> ELSE <<>>)
                 \o <<IF closed THEN ReadOk(<<>>) ELSE WouldBlock>>
        r == read_line(partial, reads)
        left == IF pipe # <<>> /\ Len(r.reads) < Len(reads) THEN <<>> ELSE pipe
    IN IF r.ret.tag = "Some"
       THEN LET rest == read_lines(r.partial, left, closed)
            IN [rest EXCEPT !.lines = <<r.ret.line>> \o @]
       ELSE [lines |-> <<>>, partial |-> r.partial, pipe |-> left]

\* What exec_test does with one line of stdout: parse_test_output,
\* handle_line, send_event, and the push of the result of a terminal event.
on_stdout_line(acc, line) ==
    LET parsed == parse_test_output(path_segments(line))
        h == cargo_handle_line(acc.state, parsed, 0, <<"t">>)
    IN IF parsed = NoLine \/ h.output = NoOutput
       THEN [acc EXCEPT !.state = h.st]
       ELSE [acc EXCEPT
               !.state = h.st,
               !.sent = Append(@, h.output),
               !.test_results =
                   IF h.output.type \in {"TestPassed", "TestFailed", "TestSkipped"}
                   THEN Append(@, h.output.result) ELSE @]

\* What exec_test does with one line of stderr: parse_error_output and
\* handle_line, whose return value is dropped.
on_stderr_line(acc, line) ==
    LET parsed == cargo_parse_error_output(path_segments(line))
    IN IF parsed = NoLine THEN acc
       ELSE [acc EXCEPT
               !.state = cargo_handle_line(acc.state, parsed, 0, <<"t">>).st]

RECURSIVE on_lines(_, _, _)
\* The lines of one stream ("stdout" or "stderr"), one after the other.
on_lines(acc, token, lines) ==
    IF lines = <<>> THEN acc
    ELSE on_lines(IF token = "stdout" THEN on_stdout_line(acc, Head(lines))
                  ELSE on_stderr_line(acc, Head(lines)),
                  token, Tail(lines))

RECURSIVE on_events(_, _, _)
\* The loop over the events of one poll: for each token the lines of its
\* stream are read and handled.
on_events(acc, tokens, closed) ==
    IF tokens = <<>> THEN acc
    ELSE LET token == Head(tokens)
             buf == IF token = "stdout" THEN acc.stdout_buf ELSE acc.stderr_buf
             pipe == IF token = "stdout" THEN acc.stdout ELSE acc.stderr
             r == read_lines(buf, pipe, closed)
             kept == IF token = "stdout"
                     THEN [acc EXCEPT !.stdout_buf = r.partial, !.stdout = r.pipe]
                     ELSE [acc EXCEPT !.stderr_buf = r.partial, !.stderr = r.pipe]
         IN on_events(on_lines(kept, token, r.lines), Tail(tokens), closed)

\* The partial line a buffer hands out at the flush, as the lines to handle.
flushed_lines(partial) ==
    LET r == flush_remaining(partial)
    IN IF r.ret.tag = "Some" THEN <<r.ret.line>> ELSE <<>>

\* A flush that leaves finalize_pending_errors out.
flush_buffers_no_finalize(acc) ==
    LET after_out == on_lines([acc EXCEPT !.stdout_buf = <<>>], "stdout",
                              flushed_lines(acc.stdout_buf))
    IN on_lines([after_out EXCEPT !.stderr_buf = <<>>], "stderr",
                flushed_lines(after_out.stderr_buf))

\* A flush that takes the partial line of stderr before the one of stdout.
flush_buffers_stderr_first(acc) ==
    LET after_err == on_lines([acc EXCEPT !.stderr_buf = <<>>], "stderr",
                              flushed_lines(acc.stderr_buf))
        after_out == on_lines([after_err EXCEPT !.stdout_buf = <<>>], "stdout",
                              flushed_lines(after_err.stdout_buf))
        f == finalize_pending_errors(after_out.state, after_out.test_results)
    IN [after_out EXCEPT !.state = f.st, !.test_results = f.test_results]

\* CargoTestRunner::flush_buffers: the partial line of stdout, then the one
\* of stderr, then finalize_pending_errors.
flush_buffers(acc) ==
    LET after_out == on_lines([acc EXCEPT !.stdout_buf = <<>>], "stdout",
                              flushed_lines(acc.stdout_buf))
        after_err == on_lines([after_out EXCEPT !.stderr_buf = <<>>], "stderr",
                              flushed_lines(after_out.stderr_buf))
        f == finalize_pending_errors(after_err.state, after_err.test_results)
    IN [after_err EXCEPT !.state = f.st, !.test_results = f.test_results]

\* What the child writes at once to stdout and to stderr.
StdoutChunks ==
    {<<"test", "t", "\n">>,
     <<"test", "t", "...", "ok", "\n">>,
     <<"test", "t", "...", "FAILED", "\n">>,
     <<"test", "t", "...", "FAILED">>}
StderrChunks ==
    {<<"thread", "t", "panicked at", "src/lib.rs", "10", "5", ":", "\n">>,
     <<"thread", "t", "panicked at", "src/lib.rs", "10", "5", ":">>}

\* The events one poll reports, in the order the loop takes them: a pipe is
\* reported when it holds bytes or its writer is gone.
PollEvents(acc) ==
    LET ready == {t \in {"stdout", "stderr"} :
                     \/ acc.child = "exited"
                     \/ (IF t = "stdout" THEN acc.stdout ELSE acc.stderr) # <<>>}
    IN {<<>>} \cup {<<t>> : t \in ready}
       \cup {p \in ready \X ready : p[1] # p[2]}

\* The executables one runner runs, and the chunks one child writes.
MaxRuns == 2
MaxWrites == 3

\* What exec_test holds when try_wait reports the exit, before any flush has
\* been made.
NoFlush ==
    [state |-> NewTestRunState, stdout_buf |-> <<>>, stderr_buf |-> <<>>,
     test_results |-> <<>>, sent |-> <<>>]

ExecInit ==
    /\ exec_pc = "idle"
    /\ ex = [state |-> NewTestRunState, run |-> 0,
             child |-> "none", writes |-> 0,
             stdout |-> <<>>, stderr |-> <<>>,
             stdout_buf |-> <<>>, stderr_buf |-> <<>>,
             test_results |-> <<>>, sent |-> <<>>,
             at_start |-> NewTestRunState, polls_after_exit |-> 0,
             before_flush |-> NoFlush, result |-> NewSuiteResult(<<>>)]

\* Every component as it is constructed.
Init ==
    /\ GraphInit /\ ResultInit /\ ManagerInit /\ TrackerInit /\ RunnerInit
    /\ HooksInit /\ SuiteInit /\ ThinInit /\ CargoTrackerInit /\ LineBufferInit /\ PanicGroupInit /\ ExecInit

(***************************************************************************)
(* The fixture dependency graph: registrations and resolutions.            *)
(***************************************************************************)

AddFixture ==
    /\ \E name \in Names, deps \in DepLists :
        /\ graph' = add_fixture(graph, name, deps)
        /\ added' = [name |-> name, deps |-> deps]
        /\ order' = NotCalled
        /\ circ' = NotAsked
    /\ UNCHANGED otherThanGraph

ResolveOrder ==
    /\ order' = resolve_order(graph)
    /\ UNCHANGED <<graph, circ, added>>
    /\ UNCHANGED otherThanGraph

HasCircularDependencies ==
    /\ circ' = [called |-> TRUE, value |-> has_circular_dependencies(graph)]
    /\ UNCHANGED <<graph, order, added>>
    /\ UNCHANGED otherThanGraph

NextGraph == AddFixture \/ ResolveOrder \/ HasCircularDependencies

SpecGraph == Init /\ [][NextGraph]_vars

(***************************************************************************)
(* A SuiteResult: test results added and finish called, in any order.      *)
(***************************************************************************)

AddTestResult ==
    /\ Len(suite.test_results) < MaxTests
    /\ \E status \in TestStatus :
          suite' = add_test_result(suite, FinishedTestResult("t", status, "None"))
    /\ UNCHANGED <<run, otherThanResult>>

SuiteFinish ==
    /\ \E error \in {"None", "Hook", "Fixture"} :
          suite' = suite_finish(suite, error)
    /\ UNCHANGED <<run, otherThanResult>>

NextSuiteResult == AddTestResult \/ SuiteFinish

SpecSuiteResult == Init /\ [][NextSuiteResult]_vars

(***************************************************************************)
(* A RunResult: suite results, each built through add_test_result and      *)
(* finish, are added.                                                      *)
(***************************************************************************)

AddSuiteResult ==
    /\ Len(run.suite_results) < MaxSuites
    /\ \E sts \in StatusSeqs, error \in {"Unfinished", "None", "Hook"} :
          LET built == BuildSuite(NewSuiteResult("s"), sts)
              given == IF error = "Unfinished" THEN built
                       ELSE suite_finish(built, error)
          IN run' = add_suite_result(run, given)
    /\ UNCHANGED <<suite, otherThanResult>>

RunFinish ==
    /\ \E error \in {"None", "TestExecution"} : run' = run_finish(run, error)
    /\ UNCHANGED <<suite, otherThanResult>>

NextRunResult == AddSuiteResult \/ RunFinish

SpecRunResult == Init /\ [][NextRunResult]_vars

(***************************************************************************)
(* A FixtureManager: definitions are registered, fixtures are set up by    *)
(* name, and scopes are torn down.                                         *)
(***************************************************************************)

\* register, for a name not registered yet and before the manager is used.
Register ==
    /\ ~mgr.aborted
    /\ mlog = NewManagerLog
    /\ mgr.session_fixtures = {} /\ mgr.suite_fixtures = {}
    /\ mgr.test_fixtures = {}
    /\ \E name \in MgrNames, scope \in FixtureScope, deps \in MgrDepLists,
          setup \in BOOLEAN, teardown \in BOOLEAN :
          /\ ~mgr.definitions[name].present
          /\ mgr' = register(mgr, name,
                             FixtureDefinition(scope, deps, setup, teardown))
    /\ UNCHANGED mlog
    /\ UNCHANGED otherThanManager

\* The names of seq whose definition has its instances in
\* table t.
RECURSIVE InTable(_, _, _)
InTable(seq, m, t) ==
    IF seq = <<>> THEN <<>>
    ELSE IF TableOf(m.definitions[Head(seq)].scope) = t
         THEN <<Head(seq)>> \o InTable(Tail(seq), m, t)
         ELSE InTable(Tail(seq), m, t)

\* setup_fixture(name, context), the setup functions of `failing` returning an
\* error.
SetupFixture ==
    /\ ~mgr.aborted
    /\ \A t \in DOMAIN mlog.setups : Len(mlog.setups[t]) < MaxSetups
    /\ \E name \in MgrNames,
          failing \in SUBSET {n \in MgrNames : mgr.definitions[n].setup} :
          LET r == setup_fixture(mgr, name, failing, {}) IN
          /\ mgr' = r.m
          /\ mlog' = [mlog EXCEPT
                        !.setups = [t \in DOMAIN @ |->
                                       @[t] \o InTable(r.invoked, mgr, t)],
                        !.setup_res = r.res,
                        !.last = NoTeardown,
                        !.last_setup =
                            [name |-> name,
                             session_fixtures |-> mgr.session_fixtures,
                             suite_fixtures |-> mgr.suite_fixtures,
                             test_fixtures |-> mgr.test_fixtures,
                             invoked |-> r.invoked, res |-> r.res]]
    /\ UNCHANGED otherThanManager

\* teardown_by_scope(scope): the table is drained in some order, the instances
\* of `held` have another Arc alive (one returned by setup_fixture or
\* get_fixture and kept by the caller), and the teardown functions of
\* `failing` return an error.
TeardownByScope ==
    /\ ~mgr.aborted
    /\ \E scope \in FixtureScope :
          LET table == mgr[TableOf(scope)] IN
          \E fixtures \in DrainOrders(table), held \in SUBSET table :
          \E failing \in SUBSET {n \in table \ held : mgr.definitions[n].teardown} :
             LET r == teardown_by_scope(mgr, scope, fixtures, held, failing)
             IN /\ mgr' = r.m
                /\ mlog' = [mlog EXCEPT
                              !.setups[TableOf(scope)] = <<>>,
                              !.setup_res = "none",
                              !.last_setup = NoSetup,
                              !.last = [scope |-> scope,
                                        before |-> mlog.setups[TableOf(scope)],
                                        drained |-> table,
                                        teardowns |-> r.invoked,
                                        held |-> held,
                                        res |-> r.res,
                                        others_kept |->
                                            \A t \in DOMAIN mlog.setups :
                                                t # TableOf(scope) =>
                                                    r.m[t] = mgr[t]]]
    /\ UNCHANGED otherThanManager

NextManager == Register \/ SetupFixture \/ TeardownByScope

SpecManager == Init /\ [][NextManager]_vars

(***************************************************************************)
(* A tracker: the lines of one child process are parsed and handled, the   *)
(* clock advances, and the pending errors are finalized.                   *)
(***************************************************************************)

\* A parsed line is handled and what it returns is published: the event is
\* emitted and the TestResult of a terminal event is collected.
Handle(src, line, exec_time) ==
    LET h == handle_line(trk, line, now)
        terminal == h.output.type \in {"TestPassed", "TestFailed", "TestSkipped"}
    IN /\ trk' = h.st
       /\ events' = IF h.output.type = "None" THEN events
                    ELSE Append(events, h.output)
       /\ test_results' = IF terminal THEN Append(test_results, h.output.result)
                          ELSE test_results
       /\ fed' = Append(fed, [src |-> src, line |-> line, exec_time |-> exec_time,
                              output |-> h.output, at |-> now,
                              before |-> trk, after |-> h.st])
       /\ UNCHANGED now

\* A text line of stdout goes through StandardLineParser::parse_test_output.
\* The child process writes its stdout in one format, text or JSON.
StdoutLine ==
    /\ Len(fed) < MaxLines
    /\ \A i \in DOMAIN fed : fed[i].src # "json"
    /\ \E input \in StdoutLines :
          Handle("text", parse_test_output(input), None(0))
    /\ UNCHANGED otherThanTracker

\* A JSON line of stdout goes through JsonLineParser::parse_test_output.
JsonLine ==
    /\ Len(fed) < MaxLines
    /\ \A i \in DOMAIN fed : fed[i].src # "text"
    /\ \E json \in JsonLines :
          Handle("json", json_parse_test_output(json), json.exec_time)
    /\ UNCHANGED otherThanTracker

\* A panic group of stderr goes through StandardLineParser::parse_error_output;
\* what handle_line returns for it is dropped.
StderrGroup ==
    /\ Len(fed) < MaxLines
    /\ \E input \in StderrGroups :
          LET line == parse_error_output(input)
              h == handle_line(trk, line, now)
          IN /\ trk' = h.st
             /\ fed' = Append(fed, [src |-> "stderr", line |-> line,
                                    exec_time |-> None(0), output |-> h.output,
                                    at |-> now, before |-> trk, after |-> h.st])
    /\ UNCHANGED <<events, test_results, now>>
    /\ UNCHANGED otherThanTracker

\* Ten milliseconds pass.
Tick ==
    /\ now < 10 * MaxTicks
    /\ now' = now + 10
    /\ UNCHANGED <<trk, events, test_results, fed>>
    /\ UNCHANGED otherThanTracker

\* finalize_pending_errors(&mut test_results)
FinalizePendingErrors ==
    /\ Len(fed) < MaxLines
    /\ LET f == finalize_pending_errors(trk, test_results)
       IN /\ trk' = f.st
          /\ test_results' = f.test_results
          /\ fed' = Append(fed, [src |-> "finalize", line |-> NoLine,
                                 exec_time |-> None(0), output |-> NoOutput,
                                 at |-> now, before |-> trk, after |-> f.st,
                                 results |-> test_results])
    /\ UNCHANGED <<events, now>>
    /\ UNCHANGED otherThanTracker

NextTracker ==
    StdoutLine \/ JsonLine \/ StderrGroup \/ Tick \/ FinalizePendingErrors

SpecTracker == Init /\ [][NextTracker]_vars

(***************************************************************************)
(* execute_tests: one executable after the other goes through exec_test.   *)
(***************************************************************************)

\* execute_tests(executables) is called, with config.fail_fast set or not.
ExecuteTests ==
    /\ runner.pc = "idle"
    /\ \E fail_fast \in BOOLEAN, n \in 0..MaxExecutables :
          runner' = [runner EXCEPT !.pc = "loop", !.fail_fast = fail_fast,
                                   !.executables = [j \in 1..n |-> j],
                                   !.result = NewRunResult]
    /\ UNCHANGED otherThanRunner

\* One turn of the loop: exec_test spawns the child, which runs its tests, and
\* returns the SuiteResult.
ExecTestReturns ==
    /\ runner.pc = "loop" /\ runner.i <= Len(runner.executables)
    /\ \E sts \in ExecStatusSeqs :
          LET name == runner.executables[runner.i]
              suite_result == create_suite_result(name, sts)
              step == execute_step(runner.result, suite_result, runner.fail_fast)
          IN runner' = [runner EXCEPT
                          !.result = step.result,
                          !.spawned = Append(@, name),
                          !.passed = Append(@, suite_all_passed(suite_result)),
                          !.pc = IF step.break THEN "exit" ELSE "loop",
                          !.i = @ + 1]
    /\ UNCHANGED otherThanRunner

\* One turn of the loop: exec_test fails, at the spawn or, the child running,
\* at the poll or at a read.
ExecTestFails ==
    /\ runner.pc = "loop" /\ runner.i <= Len(runner.executables)
    /\ \E spawns \in BOOLEAN :
          LET name == runner.executables[runner.i]
              suite_result == create_failed_suite_result(name, "Io")
              step == execute_step(runner.result, suite_result, runner.fail_fast)
          IN runner' = [runner EXCEPT
                          !.result = step.result,
                          !.spawned = IF spawns THEN Append(@, name) ELSE @,
                          !.system_errors =
                              Append(@, [executable |-> name,
                                         suite_result |-> suite_result]),
                          !.passed = Append(@, suite_all_passed(suite_result)),
                          !.pc = IF step.break THEN "exit" ELSE "loop",
                          !.i = @ + 1]
    /\ UNCHANGED otherThanRunner

\* The loop is over: the RunResult is finished, unless it already has an
\* error, and returned.
ExecuteTestsReturns ==
    /\ \/ runner.pc = "exit"
       \/ runner.pc = "loop" /\ runner.i > Len(runner.executables)
    /\ runner' = [runner EXCEPT
                    !.pc = "done",
                    !.result = IF @.error = "None" THEN run_finish(@, "None")
                               ELSE @]
    /\ UNCHANGED otherThanRunner

NextRunner ==
    ExecuteTests \/ ExecTestReturns \/ ExecTestFails \/ ExecuteTestsReturns

SpecRunner == Init /\ [][NextRunner]_vars

(***************************************************************************)
(* Hooks: registrations and executions of one stage.                       *)
(***************************************************************************)

HooksCount(h) ==
    LET RECURSIVE Sum(_)
        Sum(S) == IF S = {} THEN 0
                  ELSE LET t == CHOOSE t \in S : TRUE
                       IN Len(h[t]) + Sum(S \ {t})
    IN Sum(DOMAIN h)

\* hooks.before_all(name, f) and the like; before_setup and after_teardown are
\* public lists with no builder, pushed onto directly.
HooksAdd ==
    /\ HooksCount(hk.hooks) + HooksCount(hk.suite_hooks) < MaxHooks
    /\ \E t \in HookType, name \in HookNames :
          hk' = [hk EXCEPT !.hooks = push_hook(@, t, name)]
    /\ UNCHANGED otherThanHooks

\* hooks.execute(hook_type, &context)
HooksExecute ==
    /\ \E t \in HookType :
          \E failing \in SUBSET DOMAIN hk.hooks[t] :
             hk' = [hk EXCEPT !.last =
                       [called |-> TRUE, hook_type |-> t, hooks |-> hk.hooks[t],
                        failing |-> failing,
                        out |-> hooks_execute(hk.hooks, t, failing)]]
    /\ UNCHANGED otherThanHooks

\* suite_hooks.before_all(name, f) and the like
SuiteHooksAdd ==
    /\ HooksCount(hk.hooks) + HooksCount(hk.suite_hooks) < MaxHooks
    /\ \E t \in SuiteHookLists, name \in HookNames :
          hk' = [hk EXCEPT !.suite_hooks = push_hook(@, t, name)]
    /\ UNCHANGED otherThanHooks

\* suite_hooks.execute_hooks(&suite_hooks.<list>, &context, "<list>"), as
\* TestSuite::execute calls it.
SuiteHooksExecuteHooks ==
    /\ \E t \in SuiteHookLists :
          \E failing \in SUBSET DOMAIN hk.suite_hooks[t] :
             hk' = [hk EXCEPT !.last =
                       [called |-> TRUE, hook_type |-> t,
                        hooks |-> hk.suite_hooks[t], failing |-> failing,
                        out |-> execute_hooks(hk.suite_hooks[t], failing, t)]]
    /\ UNCHANGED otherThanHooks

NextHooks ==
    HooksAdd \/ HooksExecute \/ SuiteHooksAdd \/ SuiteHooksExecuteHooks

SpecHooks == Init /\ [][NextHooks]_vars

(***************************************************************************)
(* TestSuite: the suite is built, then TestSuite::execute goes through its *)
(* stages.                                                                 *)
(***************************************************************************)

\* What the suite has been built with so far.
BuildCount ==
    Len(ts.suite.tests) + HooksCount(ts.suite.hooks)
        + Len(ts.suite.fixtures.graph.keys)

\* suite.add_test(test)
AddTest ==
    /\ ts.pc = "build"
    /\ \E name \in SuiteTestNames, only \in BOOLEAN, ignore \in BOOLEAN :
          /\ \/ BuildCount < MaxBuild
             \/ \E i \in DOMAIN ts.suite.tests : ts.suite.tests[i].name = name
          /\ ts' = [ts EXCEPT !.suite.tests = add_test(@, Test(name, only, ignore))]
    /\ UNCHANGED otherThanSuite

\* suite.only()
SuiteOnly ==
    /\ ts.pc = "build" /\ ~ts.suite.only
    /\ ts' = [ts EXCEPT !.suite.only = TRUE]
    /\ UNCHANGED otherThanSuite

\* suite.with_hooks(hooks), the hooks being those of the suite and one more on
\* one of the lists, named h1 and h2 in turn.
WithHooks ==
    /\ ts.pc = "build" /\ BuildCount < MaxBuild
    /\ \E list \in SuiteHookLists :
          LET name == IF Len(ts.suite.hooks[list]) % 2 = 0 THEN "h1" ELSE "h2"
          IN ts' = [ts EXCEPT !.suite.hooks = push_hook(@, list, name)]
    /\ UNCHANGED otherThanSuite

\* suite.fixtures.register_fixture(definition)
RegisterFixture ==
    /\ ts.pc = "build"
    /\ \E name \in RegNames, definition \in RegDefinitions :
          /\ BuildCount < MaxBuild \/ name \in Range(ts.suite.fixtures.graph.keys)
          /\ ts' = [ts EXCEPT !.suite.fixtures =
                                  register_fixture(@, name, definition)]
    /\ UNCHANGED otherThanSuite

\* The fixtures of a scope that have the function asked for.
WithSetup(scope) ==
    {n \in DOMAIN ts.suite.fixtures.defs :
        ts.suite.fixtures.defs[n].scope = scope /\ ts.suite.fixtures.defs[n].setup}
WithTeardown(scope) ==
    {n \in DOMAIN ts.suite.fixtures.defs :
        ts.suite.fixtures.defs[n].scope = scope
        /\ ts.suite.fixtures.defs[n].teardown}

\* Where the loop over the runnable tests goes after the i-th test.
AfterTest(runnable, i) ==
    IF i + 1 > Len(runnable) THEN "after_all" ELSE "setup_test"

\* suite.execute() is called: the SuiteResult is made and the suite-scoped
\* fixtures are set up; a failure finishes the SuiteResult and returns it.
Execute ==
    /\ ts.pc = "build"
    /\ \E failing \in SUBSET WithSetup("Suite") :
          LET out == setup_suite_fixtures(ts.suite.fixtures, failing)
              entry == Step("setup_suite_fixtures", "", out.ran, out.tag = "Ok", "")
          IN ts' = [ts EXCEPT
                      !.suite.fixtures = out.r,
                      !.trace = Append(@, entry),
                      !.result = suite_setup_done(NewSuiteResult("s"), out).result,
                      !.pc = suite_setup_done(NewSuiteResult("s"), out).pc]
    /\ UNCHANGED otherThanSuite

\* The before_all hooks are executed; a failure finishes the SuiteResult and
\* returns it; otherwise the runnable tests are determined.
BeforeAll ==
    /\ ts.pc = "before_all"
    /\ \E failing \in SUBSET DOMAIN ts.suite.hooks.before_all :
          LET out == execute_hooks(ts.suite.hooks.before_all, failing, "before_all")
              entry == Step("before_all", "", out.ran, out.tag = "Ok", "")
              runnable == get_runnable_tests(ts.suite.only, ts.suite.tests)
              done == suite_hooks_done(ts.result, out, AfterTest(runnable, 0))
          IN ts' = [ts EXCEPT !.trace = Append(@, entry),
                              !.result = done.result,
                              !.runnable =
                                  IF done.pc = "returned" THEN @
                                  ELSE [j \in DOMAIN runnable |-> runnable[j].name],
                              !.pc = done.pc]
    /\ UNCHANGED otherThanSuite

\* The test-scoped fixtures are set up for the test; a failure records a
\* Failed TestResult and goes on with the next test.
SetupTestFixtures ==
    /\ ts.pc = "setup_test"
    /\ \E failing \in SUBSET WithSetup("Test") :
          LET test_name == ts.runnable[ts.i]
              out == setup_test_fixtures(ts.suite.fixtures, failing)
              entry == Step("setup_test_fixtures", test_name, out.ran,
                            out.tag = "Ok", "")
              done == test_setup_done(ts.result, out, test_name)
          IN ts' = [ts EXCEPT
                      !.suite.fixtures = out.r,
                      !.trace = Append(@, entry),
                      !.result = done.result,
                      !.i = IF done.continue THEN @ + 1 ELSE @,
                      !.pc = IF done.continue THEN AfterTest(ts.runnable, ts.i)
                             ELSE "before_each"]
    /\ UNCHANGED otherThanSuite

\* The before_each hooks are executed; a failure records a Failed TestResult,
\* tears the test-scoped fixtures down, whatever that returns, and goes on
\* with the next test.
BeforeEach ==
    /\ ts.pc = "before_each"
    /\ \E failing \in SUBSET DOMAIN ts.suite.hooks.before_each,
          failing_teardown \in SUBSET WithTeardown("Test") :
          LET test_name == ts.runnable[ts.i]
              out == execute_hooks(ts.suite.hooks.before_each, failing,
                                   "before_each")
              entry == Step("before_each", test_name, out.ran, out.tag = "Ok", "")
              down == teardown_test_fixtures(ts.suite.fixtures, failing_teardown)
              entry_down == Step("teardown_test_fixtures", test_name, down.ran,
                                 down.tag = "Ok", "")
              done == before_each_done(ts.result, out, test_name)
          IN ts' = IF done.continue
                   THEN [ts EXCEPT
                           !.suite.fixtures = down.r,
                           !.trace = @ \o <<entry, entry_down>>,
                           !.result = done.result,
                           !.i = @ + 1,
                           !.pc = AfterTest(ts.runnable, ts.i)]
                   ELSE [ts EXCEPT !.trace = Append(@, entry),
                                   !.result = done.result,
                                   !.pc = "body"]
    /\ UNCHANGED otherThanSuite

\* test.execute(test_context): the body of the test runs and its TestResult
\* is finished.
TestBody ==
    /\ ts.pc = "body"
    /\ \E status \in BodyStatus :
          LET test_name == ts.runnable[ts.i]
          IN ts' = [ts EXCEPT
                      !.test_result = FinishedTestResult(test_name, status,
                                                         BodyError(status)),
                      !.trace = Append(@, Step("body", test_name, <<>>,
                                               status = "Passed", status)),
                      !.pc = "after_each"]
    /\ UNCHANGED otherThanSuite

\* The after_each hooks are executed; a failure makes a test that passed a
\* Failed one.
AfterEach ==
    /\ ts.pc = "after_each"
    /\ \E failing \in SUBSET DOMAIN ts.suite.hooks.after_each :
          LET test_name == ts.runnable[ts.i]
              out == execute_hooks(ts.suite.hooks.after_each, failing,
                                   "after_each")
              entry == Step("after_each", test_name, out.ran, out.tag = "Ok", "")
          IN ts' = [ts EXCEPT
                      !.trace = Append(@, entry),
                      !.test_result = after_each_done(@, out),
                      !.pc = "teardown_test"]
    /\ UNCHANGED otherThanSuite

\* The test-scoped fixtures are torn down, a failure being printed as a
\* warning, and the TestResult is added to the SuiteResult.
TeardownTestFixtures ==
    /\ ts.pc = "teardown_test"
    /\ \E failing \in SUBSET WithTeardown("Test") :
          LET test_name == ts.runnable[ts.i]
              out == teardown_test_fixtures(ts.suite.fixtures, failing)
              entry == Step("teardown_test_fixtures", test_name, out.ran,
                            out.tag = "Ok", "")
          IN ts' = [ts EXCEPT
                      !.suite.fixtures = out.r,
                      !.trace = Append(@, entry),
                      !.result = test_teardown_done(@, ts.test_result, out),
                      !.test_result = NoTestResult,
                      !.i = @ + 1,
                      !.pc = AfterTest(ts.runnable, ts.i)]
    /\ UNCHANGED otherThanSuite

\* The after_all hooks are executed; a failure finishes the SuiteResult and
\* returns it.
AfterAll ==
    /\ ts.pc = "after_all"
    /\ \E failing \in SUBSET DOMAIN ts.suite.hooks.after_all :
          LET out == execute_hooks(ts.suite.hooks.after_all, failing, "after_all")
              entry == Step("after_all", "", out.ran, out.tag = "Ok", "")
              done == suite_hooks_done(ts.result, out, "teardown_suite")
          IN ts' = [ts EXCEPT !.trace = Append(@, entry),
                              !.result = done.result,
                              !.pc = done.pc]
    /\ UNCHANGED otherThanSuite

\* The suite-scoped fixtures are torn down and the SuiteResult is finished,
\* with the error of the teardown or with none, and returned.
TeardownSuiteFixtures ==
    /\ ts.pc = "teardown_suite"
    /\ \E failing \in SUBSET WithTeardown("Suite") :
          LET out == teardown_suite_fixtures(ts.suite.fixtures, failing)
              entry == Step("teardown_suite_fixtures", "", out.ran,
                            out.tag = "Ok", "")
          IN ts' = [ts EXCEPT
                      !.suite.fixtures = out.r,
                      !.trace = Append(@, entry),
                      !.result = suite_finish(@, IF out.tag = "Err"
                                                 THEN "Fixture" ELSE "None"),
                      !.pc = "returned"]
    /\ UNCHANGED otherThanSuite

NextSuite ==
    \/ AddTest \/ SuiteOnly \/ WithHooks \/ RegisterFixture
    \/ Execute \/ BeforeAll
    \/ SetupTestFixtures \/ BeforeEach \/ TestBody \/ AfterEach
    \/ TeardownTestFixtures
    \/ AfterAll \/ TeardownSuiteFixtures

SpecSuite == Init /\ [][NextSuite]_vars

(***************************************************************************)
(* Operations of the DefaultTestRunner                                     *)
(***************************************************************************)

\* DefaultTestRunner::run is called: RunResult::new, filter_suites, and the
\* return when no suite is left.
ThinRun ==
    /\ thin.pc = "idle"
    /\ \E config \in ThinConfigs, n \in 0..MaxThinSuites :
       \E suites \in [1..n -> ThinSuites] :
          LET suites_to_run == filter_suites(config, suites)
          IN thin' = [thin EXCEPT
                        !.config = config, !.suites = suites,
                        !.suites_to_run = suites_to_run, !.i = 1,
                        !.result = IF suites_to_run = <<>>
                                   THEN run_finish(NewRunResult, "None")
                                   ELSE NewRunResult,
                        !.pc = IF suites_to_run = <<>>
                               THEN "returned" ELSE "loop"]
    /\ UNCHANGED otherThanThin

\* One turn of the loop: the next suite executes and its result is handled.
ThinSuiteExecutes ==
    /\ thin.pc = "loop"
    /\ thin.i <= Len(thin.suites_to_run)
    /\ \E out \in SuiteOutcomes(thin.suites_to_run[thin.i].name) :
          LET step == thin_run_step(thin.result, out, thin.config.fail_fast)
          IN thin' = [thin EXCEPT
                        !.executed = Append(@, [at |-> thin.i,
                                                error |-> out.value.error]),
                        !.result = step.result,
                        !.i = @ + 1,
                        !.pc = IF step.returned THEN "returned" ELSE "loop"]
    /\ UNCHANGED otherThanThin

\* The loop is over: the result is finished without an error and returned.
ThinRunReturns ==
    /\ thin.pc = "loop"
    /\ thin.i > Len(thin.suites_to_run)
    /\ thin' = [thin EXCEPT !.result = run_finish(@, "None"),
                            !.pc = "returned"]
    /\ UNCHANGED otherThanThin

NextThin == ThinRun \/ ThinSuiteExecutes \/ ThinRunReturns

SpecThin == Init /\ [][NextThin]_vars

(***************************************************************************)
(* A tracker of the cargo runner: lines are parsed and handled, a test     *)
(* ends with an error, and the clock advances.                             *)
(***************************************************************************)

\* handle_line is called with a line, and what it did is kept.
CargoHandle(line, last) ==
    LET h == cargo_handle_line(ctk.st, line, ctk.now, last)
    IN ctk' = [ctk EXCEPT
                 !.st = h.st,
                 !.fed = Append(@, [line |-> line, output |-> h.output,
                                    at |-> ctk.now,
                                    before |-> ctk.st, after |-> h.st])]

\* A line of stdout goes through parse_test_output.
CargoStdoutLine ==
    /\ Len(ctk.fed) < MaxCargoLines
    /\ \E input \in StdoutLines, last \in LastKeys(ctk.st) :
          CargoHandle(parse_test_output(input), last)
    /\ UNCHANGED otherThanCargoTracker

\* A line of stderr goes through parse_error_output.
CargoStderrLine ==
    /\ Len(ctk.fed) < MaxCargoLines
    /\ \E input \in CargoStderrLines, last \in LastKeys(ctk.st) :
          CargoHandle(cargo_parse_error_output(input), last)
    /\ UNCHANGED otherThanCargoTracker

\* TestTracker::end_test_with_error(err) hands a PanicMessage to its tracker.
CargoEndTestWithError ==
    /\ Len(ctk.fed) < MaxCargoLines
    /\ \E last \in LastKeys(ctk.st) :
          CargoHandle(TestOutputLine("PanicMessage", <<>>, "", None(0),
                                     "assertion failed", None(NoLocation)), last)
    /\ UNCHANGED otherThanCargoTracker

\* Ten milliseconds pass.
CargoTick ==
    /\ ctk.now < 10 * MaxTicks
    /\ ctk' = [ctk EXCEPT !.now = @ + 10]
    /\ UNCHANGED otherThanCargoTracker

NextCargoTracker ==
    CargoStdoutLine \/ CargoStderrLine \/ CargoEndTestWithError \/ CargoTick

SpecCargoTracker == Init /\ [][NextCargoTracker]_vars

(***************************************************************************)
(* A LineBuffer over one stream: read_line is called while the stream is   *)
(* delivered in chunks, and flush_remaining is called last.                *)
(***************************************************************************)

\* The bytes of the reads that were made.
RECURSIVE BytesOf(_)
BytesOf(reads) ==
    IF reads = <<>> THEN <<>> ELSE Head(reads).bytes \o BytesOf(Tail(reads))

\* LineBuffer::new(reader), for a reader that will deliver the stream s.
LbNew ==
    /\ ~lb.made
    /\ \E s \in Streams :
          lb' = [lb EXCEPT !.made = TRUE, !.stream = s, !.rest = s]
    /\ UNCHANGED otherThanLineBuffer

\* read_line() is called. A newline already buffered is returned without a
\* read; otherwise the reader delivers the next bytes in some chunks.
LbReadLine ==
    /\ lb.made /\ ~lb.flushed
    /\ \E reads \in Chunkings(lb.rest) :
          LET r == read_line(lb.partial, reads)
              made == SubSeq(reads, 1, Len(reads) - Len(r.reads))
              read_bytes == BytesOf(made)
              ended == made # <<>> /\ made[Len(made)] = ReadOk(<<>>)
          IN /\ r.reads = <<>>
             /\ reads = <<>> => find_newline(lb.partial) > 0
             /\ lb.eof => \A k \in DOMAIN reads : reads[k] = ReadOk(<<>>)
             /\ lb' = [lb EXCEPT
                         !.partial = r.partial,
                         !.rest = SubSeq(@, Len(read_bytes) + 1, Len(@)),
                         !.eof = @ \/ ended,
                         !.lines = IF r.ret.tag = "Some"
                                   THEN Append(@, r.ret.line) ELSE @]
             /\ lb' # lb
    /\ UNCHANGED otherThanLineBuffer

\* flush_remaining() is called, after the last read_line: exec_test calls it
\* when its loops have taken every buffered line, so no newline is buffered.
LbFlushRemaining ==
    /\ lb.made /\ ~lb.flushed
    /\ find_newline(lb.partial) = 0
    /\ LET f == flush_remaining(lb.partial)
       IN lb' = [lb EXCEPT !.partial = f.partial, !.flushed = TRUE,
                           !.lines = IF f.ret.tag = "Some"
                                     THEN Append(@, f.ret.line) ELSE @]
    /\ UNCHANGED otherThanLineBuffer

NextLineBuffer == LbNew \/ LbReadLine \/ LbFlushRemaining

SpecLineBuffer == Init /\ [][NextLineBuffer]_vars

(***************************************************************************)
(* read_panic_group over the stderr of one child.                          *)
(***************************************************************************)

\* LineBuffer::new over a stderr that holds the given lines.
PgNew ==
    /\ ~pg.made
    /\ \E n \in 0..MaxStderrLines :
       \E lines \in [1..n -> StderrLines] :
          pg' = [pg EXCEPT !.made = TRUE, !.stderr = lines, !.avail = lines]
    /\ UNCHANGED otherThanPanicGroup

\* read_panic_group() is called while lines are left.
PgReadPanicGroup ==
    /\ pg.made /\ pg.avail # <<>>
    /\ LET r == read_panic_group(pg.avail)
       IN pg' = [pg EXCEPT
                   !.avail = r.avail,
                   !.calls = Append(@, [read |-> Len(pg.avail) - Len(r.avail),
                                        lines |-> r.lines, ret |-> r.ret])]
    /\ UNCHANGED otherThanPanicGroup

NextPanicGroup == PgNew \/ PgReadPanicGroup

SpecPanicGroup == Init /\ [][NextPanicGroup]_vars

(***************************************************************************)
(* exec_test: the child is spawned, the loop polls and reads while the     *)
(* child writes and exits, and the buffers are flushed when it has exited. *)
(***************************************************************************)

\* exec_test(bin) is called, by execute_tests for its next executable: the
\* child is spawned, and the buffers and test_results are new. self.state is
\* the runner's.
ExecTest ==
    /\ exec_pc \in {"idle", "returned", "failed"}
    /\ ex.run < MaxRuns
    /\ exec_pc' = "poll"
    /\ ex' = [ex EXCEPT
                !.run = @ + 1, !.child = "running",
                !.writes = 0, !.stdout = <<>>, !.stderr = <<>>,
                !.stdout_buf = <<>>, !.stderr_buf = <<>>,
                !.test_results = <<>>, !.sent = <<>>,
                !.at_start = ex.state, !.polls_after_exit = 0,
                !.before_flush = NoFlush,
                !.result = NewSuiteResult(<<>>)]
    /\ UNCHANGED otherThanExec

\* The child writes a chunk to one of its pipes.
ChildWrites ==
    /\ ex.child = "running" /\ ex.writes < MaxWrites
    /\ \/ \E chunk \in StdoutChunks :
             ex' = [ex EXCEPT !.stdout = @ \o chunk, !.writes = @ + 1]
       \/ \E chunk \in StderrChunks :
             ex' = [ex EXCEPT !.stderr = @ \o chunk, !.writes = @ + 1]
    /\ UNCHANGED <<exec_pc, otherThanExec>>

\* The child exits.
ChildExits ==
    /\ ex.child = "running"
    /\ ex' = [ex EXCEPT !.child = "exited"]
    /\ UNCHANGED <<exec_pc, otherThanExec>>

\* poll returns, after 100 ms at most, and the loop over its events runs.
ExecPoll ==
    /\ exec_pc = "poll"
    /\ exec_pc' = "try_wait"
    /\ \E tokens \in PollEvents(ex) :
          ex' = [on_events(ex, tokens, ex.child = "exited")
                    EXCEPT !.polls_after_exit =
                               IF ex.child = "exited" THEN @ + 1 ELSE @]
    /\ UNCHANGED otherThanExec

\* child.try_wait(): the loop goes on while the child runs; when it has
\* exited the buffers are flushed and the SuiteResult is returned.
ExecTryWait ==
    /\ exec_pc = "try_wait"
    /\ exec_pc' = IF ex.child = "exited" THEN "returned" ELSE "poll"
    /\ IF ex.child = "exited"
       THEN LET f == flush_buffers(ex)
            IN ex' = [f EXCEPT
                        !.before_flush =
                            [state |-> ex.state, stdout_buf |-> ex.stdout_buf,
                             stderr_buf |-> ex.stderr_buf,
                             test_results |-> ex.test_results,
                             sent |-> ex.sent],
                        !.result = create_suite_result(
                            <<"bin">>,
                            [k \in DOMAIN f.test_results |->
                                f.test_results[k].status])]
       ELSE ex' = ex
    /\ UNCHANGED otherThanExec

\* poll, read_line or try_wait gives an error, and `?` returns it.
ExecFails ==
    /\ exec_pc \in {"poll", "try_wait"}
    /\ exec_pc' = "failed"
    /\ ex' = ex
    /\ UNCHANGED otherThanExec

NextExec ==
    ExecTest \/ ChildWrites \/ ChildExits \/ ExecPoll \/ ExecTryWait \/ ExecFails

SpecExec == Init /\ [][NextExec]_vars

\* The loop of exec_test is sequential code and poll has a timeout of 100 ms:
\* exec_test does not stay at its poll for ever, nor at its try_wait. The
\* steps that take it away from there are those of ExecPoll and ExecTryWait
\* (and of ExecFails, which is not required to happen).
LeavesPoll == exec_pc = "poll" /\ exec_pc' = "try_wait"
LeavesTryWait == exec_pc = "try_wait" /\ exec_pc' \in {"poll", "returned"}
SpecExecFair ==
    /\ Init /\ [][NextExec]_vars
    /\ WF_exec_pc(LeavesPoll) /\ WF_exec_pc(LeavesTryWait)

---------------------------------------------------------------------------
\* What the claims about the graph speak of, stated without the traversal.

Keys == Range(graph.keys)
DepsOf(n) == IF n \in Keys THEN Range(graph.deps[n]) ELSE {}

RECURSIVE ReachFrom(_, _)
\* The fixtures reachable from the set S along dependency edges, S included.
ReachFrom(S, n) ==
    IF n = 0 THEN S ELSE ReachFrom(S \cup UNION {DepsOf(x) : x \in S}, n - 1)

\* The direct and transitive dependencies of fixture f.
TransDeps(f) == ReachFrom(DepsOf(f), Cardinality(Names))

HasCycle == \E f \in Keys : f \in TransDeps(f)
AllDepsRegistered == \A f \in Keys : DepsOf(f) \subseteq Keys
Resolved == order.tag # "NotCalled"

\* In the sequence s every occurrence of a comes before every occurrence of b.
Before(a, b, s) == \A i, j \in DOMAIN s : (s[i] = a /\ s[j] = b) => i < j

\* The (fixture, dependency) pairs whose dependency is not registered.
UndefinedPairs == {<<f, d>> \in Names \X Names : f \in Keys /\ d \in DepsOf(f) \ Keys}

\* C1: for an acyclic graph whose dependency names are all registered,
\* resolve_order() returns an order, and in it every fixture comes after each of
\* its direct and transitive dependencies.
C1_DependenciesFirst ==
    (Resolved /\ ~HasCycle /\ AllDepsRegistered) =>
        /\ order.tag = "Ok"
        /\ \A f \in Keys :
              /\ f \in Range(order.value)
              /\ \A d \in TransDeps(f) :
                    d \in Range(order.value) /\ Before(d, f, order.value)

\* C1 witness: three fixtures with a transitive dependency, registered in an
\* order that is not the resolved one, have been resolved.
C1_Witness ==
    /\ Resolved /\ ~HasCycle /\ AllDepsRegistered
    /\ Len(graph.keys) = 3
    /\ order.value # graph.keys
    /\ \E f \in Keys : TransDeps(f) # DepsOf(f)

\* C2 as stated: for a graph with a dependency cycle resolve_order() returns the
\* cycle error, never an order, and has_circular_dependencies() returns true.
C2_CycleGivesCycleError ==
    /\ (HasCycle /\ Resolved) => (order.tag = "Err" /\ order.err.kind = "cycle")
    /\ (HasCycle /\ circ.called) => circ.value

\* C2 amended: for a graph with a dependency cycle resolve_order() returns an
\* error and no order, and has_circular_dependencies() returns true; the error
\* is the cycle error, naming a fixture that lies on a cycle, unless the
\* traversal meets an unregistered dependency first, and then it is the
\* undefined-fixture error (never so when every dependency is registered).
C2_CycleGivesError ==
    /\ (HasCycle /\ Resolved) =>
          /\ order.tag = "Err" /\ order.value = <<>>
          /\ order.err.kind \in {"cycle", "undefined"}
          /\ AllDepsRegistered => order.err.kind = "cycle"
          /\ order.err.kind = "cycle" =>
                \E f \in Keys : f \in TransDeps(f) /\ order.err = CycleError(f)
    /\ (HasCycle /\ circ.called) => circ.value

\* C2 witness: a graph with a cycle of length two and all dependencies
\* registered has been resolved and asked for circular dependencies.
C2_Witness ==
    /\ HasCycle /\ AllDepsRegistered /\ Resolved /\ circ.called
    /\ \A f \in Keys : f \notin DepsOf(f)

\* C3 as stated: add_fixture stores a fixture B with an unregistered dependency
\* Z without failing, and resolve_order() then returns the undefined-fixture
\* error whose message names B and Z.
C3_UndefinedNamesBoth ==
    /\ added # NoAdd =>
          added.name \in Keys /\ graph.deps[added.name] = added.deps
    /\ \A p \in UndefinedPairs :
          Resolved => order = Err(UndefinedError(p[1], p[2]))

\* C3 amended: add_fixture stores a fixture B with an unregistered dependency Z
\* without failing; resolve_order() then returns an error and no order: the
\* undefined-fixture error naming a registered fixture and one of its
\* unregistered dependencies (B and Z when they are the only such pair), or
\* the cycle error when the traversal closes a cycle first (never so in an
\* acyclic graph).
C3_UndefinedDeferred ==
    /\ added # NoAdd =>
          added.name \in Keys /\ graph.deps[added.name] = added.deps
    /\ (UndefinedPairs # {} /\ Resolved) =>
          /\ order.tag = "Err" /\ order.value = <<>>
          /\ order.err.kind = "undefined" =>
                \E p \in UndefinedPairs : order.err = UndefinedError(p[1], p[2])
          /\ ~HasCycle => order.err.kind = "undefined"
    /\ (order.err.kind = "undefined") => UndefinedPairs # {}

\* C3 witness: the fixture registered last has an unregistered dependency, it
\* is the only such pair of an acyclic graph, and resolve_order() has run.
C3_Witness ==
    /\ Resolved /\ ~HasCycle
    /\ \E d \in Names : UndefinedPairs = {<<added.name, d>>}
    /\ Len(graph.keys) >= 2

\* C5: after every add_suite_result, the RunResult's total_tests equals
\* passed_tests + failed_tests + skipped_tests, for suite results built through
\* add_test_result with test results of any status.
C5_RunCountersAddUp ==
    run.total_tests = run.passed_tests + run.failed_tests + run.skipped_tests

\* C5 witness: two suite results were added and tests of each counter are in.
C5_Witness ==
    /\ Len(run.suite_results) = 2
    /\ run.passed_tests > 0 /\ run.failed_tests > 1 /\ run.skipped_tests > 1

\* C6: after every add_test_result, the SuiteResult's total_tests equals
\* passed_tests + failed_tests + skipped_tests, whatever the status added.
C6_SuiteCountersAddUp ==
    suite.total_tests =
        suite.passed_tests + suite.failed_tests + suite.skipped_tests

\* C6 witness: a timed-out, an ignored and a passed test result were added.
C6_Witness ==
    {suite.test_results[i].status : i \in DOMAIN suite.test_results}
        = {"Timeout", "Ignored", "Passed"}

\* C7: in every reachable state of a SuiteResult, all_passed() is true exactly
\* when failed_tests is 0 and error is absent.
C7_AllPassedIff ==
    suite_all_passed(suite) <=> (suite.failed_tests = 0 /\ suite.error = "None")

\* C7 witness: a SuiteResult without a failed test was finished with an error,
\* and all_passed() is false.
C7_Witness ==
    /\ suite.finished /\ suite.error # "None"
    /\ suite.total_tests > 0 /\ suite.failed_tests = 0
    /\ ~suite_all_passed(suite)

\* C4: when FixtureManager::teardown_by_scope has torn a scope down, the
\* teardown functions it invoked are, in order, the reverse of the setup
\* functions invoked for that scope. Stated for the plainest case: every
\* drained instance came from one invocation of its setup function, has a
\* teardown function, was held by nobody else, and no teardown failed.
C4_TeardownReversesSetup ==
    LET l == mlog.last IN
    ( /\ l.scope # "none" /\ l.res = "Ok" /\ l.held = {}
      /\ Range(l.before) = l.drained
      /\ Len(l.before) = Cardinality(l.drained)
      /\ \A n \in l.drained : mgr.definitions[n].teardown )
    => l.teardowns = Reverse(l.before)

\* C8: when the result line `test t ... FAILED` and the panic group of t
\* (header with src/lib.rs:10:5, message "assertion failed") were both
\* handled, once each and the result line while t was running, there is
\* exactly one TestFailed event for t, its error text carries the message and
\* its location is src/lib.rs:10:5, in whichever order the two were handled.
C8_FailedEventCarriesPanic ==
    LET resultLines == {i \in DOMAIN fed :
                          /\ fed[i].src = "text" /\ fed[i].line.type = "TestResult"
                          /\ fed[i].line.name = <<"t">>
                          /\ fed[i].line.status = "Failed"}
        panicGroups == {i \in DOMAIN fed :
                          /\ fed[i].src = "stderr" /\ fed[i].line.type = "Panic"
                          /\ fed[i].line.name = <<"t">>}
        failed == {i \in DOMAIN events :
                      events[i].type = "TestFailed" /\ events[i].name = <<"t">>}
    IN ( /\ Cardinality(resultLines) = 1 /\ Cardinality(panicGroups) = 1
         /\ \A i \in resultLines : fed[i].output.type = "TestFailed" )
       => /\ Cardinality(failed) = 1
          /\ \A i \in failed :
                /\ events[i].error.message = Some("assertion failed")
                /\ events[i].location = Some(SourceLocation("src/lib.rs", 10, 5))

\* C9: a JSON line of type "test" and event "ok" with a name and an exec_time
\* of t seconds, handled while that test is running, yields a TestPassed
\* event for the name whose duration_ms is t in milliseconds (1000 * t).
C9_ExecTimeInMilliseconds ==
    \A i \in DOMAIN fed :
        ( /\ fed[i].src = "json" /\ fed[i].line.type = "TestResult"
          /\ fed[i].line.status = "Passed" /\ fed[i].exec_time.some
          /\ fed[i].output.type # "None" )
        => /\ fed[i].output.type = "TestPassed"
           /\ fed[i].output.name = fed[i].line.name
           /\ fed[i].output.duration_ms = 1000 * fed[i].exec_time.v

\* C10: with fail-fast enabled, execute_tests stops at the first executable
\* whose SuiteResult is not all_passed: no later turn of the loop is taken and
\* no later executable is spawned, the RunResult holds exactly the suite
\* results of the executables up to and including that one, and its error is
\* set, when the loop is left and when execute_tests has returned.
C10_FailFastStops ==
    runner.fail_fast =>
        \A k \in DOMAIN runner.passed :
            ~runner.passed[k] =>
                /\ Len(runner.passed) = k
                /\ \A j \in DOMAIN runner.spawned : runner.spawned[j] <= k
                /\ runner.result.suite_results = [j \in 1..k |-> j]
                /\ runner.pc \in {"exit", "done"}
                /\ runner.result.error # "None"

\* C10 witness: execute_tests has returned with fail-fast enabled; of three
\* executables the first passed and the second did not.
C10_Witness ==
    /\ runner.pc = "done" /\ runner.fail_fast
    /\ Len(runner.executables) = 3
    /\ runner.passed = <<TRUE, FALSE>>
    /\ runner.spawned = <<1, 2>>
    /\ runner.result.error = "TestExecution"

\* C11: with fail-fast disabled, a failure of exec_test for one executable does
\* not end execute_tests: the loop is never left early, the RunResult holds one
\* SuiteResult per executable gone through, in the order of the list, the one
\* of a failed executable holds exactly one TestResult, Failed and named
\* `<executable>_system_error`, and the RunResult is returned without an error
\* once every executable has contributed.
C11_SystemErrorIsolated ==
    ~runner.fail_fast =>
        /\ runner.pc # "exit"
        /\ runner.result.suite_results = [j \in 1..(runner.i - 1) |-> j]
        /\ \A k \in DOMAIN runner.system_errors :
              LET e == runner.system_errors[k]
                  sr == e.suite_result
              IN /\ Len(sr.test_results) = 1
                 /\ sr.total_tests = 1 /\ sr.failed_tests = 1
                 /\ sr.test_results[1].status = "Failed"
                 /\ sr.test_results[1].name = <<e.executable, "_system_error">>
                 /\ sr.test_results[1].error # "None"
                 /\ e.executable \in Range(runner.result.suite_results)
        /\ runner.pc = "done" =>
              /\ Len(runner.result.suite_results) = Len(runner.executables)
              /\ runner.result.total_suites = Len(runner.executables)
              /\ runner.result.error = "None"

\* C11 witness: execute_tests has returned with fail-fast disabled; exec_test
\* failed on the first of three executables without spawning it, and the two
\* after it were spawned.
C11_Witness ==
    /\ runner.pc = "done" /\ ~runner.fail_fast
    /\ Len(runner.executables) = 3
    /\ Len(runner.system_errors) = 1
    /\ runner.system_errors[1].executable = 1
    /\ runner.spawned = <<2, 3>>
    /\ runner.result.failed_suites >= 1

\* The places of the record of the execution where the step was taken for the
\* test.
TraceAt(step, test) ==
    {k \in DOMAIN ts.trace : ts.trace[k].step = step /\ ts.trace[k].test = test}

\* The places of the recorded TestResults of the test.
ResultsOf(test) ==
    {k \in DOMAIN ts.result.test_results : ts.result.test_results[k].name = test}

\* The place of the test among the runnable tests.
PlaceOf(test) == CHOOSE j \in DOMAIN ts.runnable : ts.runnable[j] = test

\* The execution goes on with the test after `test` once the k-th step is
\* over: the next step taken, if any, is the fixture setup of the next runnable
\* test, or the after_all hooks after the last test.
ContinuesAfter(k, test) ==
    LET j == PlaceOf(test) IN
    IF k < Len(ts.trace)
    THEN IF j < Len(ts.runnable)
         THEN /\ ts.trace[k + 1].step = "setup_test_fixtures"
              /\ ts.trace[k + 1].test = ts.runnable[j + 1]
         ELSE ts.trace[k + 1].step = "after_all"
    ELSE IF j < Len(ts.runnable)
         THEN ts.pc = "setup_test" /\ ts.i = j + 1
         ELSE ts.pc = "after_all"

\* The counters of the SuiteResult are those of its TestResults.
CountersMatchResults ==
    LET rs == ts.result.test_results
        Count(S) == Cardinality({k \in DOMAIN rs : rs[k].status \in S})
    IN /\ ts.result.total_tests = Len(rs)
       /\ ts.result.passed_tests = Count({"Passed"})
       /\ ts.result.failed_tests = Count({"Failed", "Timeout"})
       /\ ts.result.skipped_tests = Count({"Skipped", "Ignored"})

\* C12: when the after_each hooks fail for a test, the TestResult recorded for
\* it is Failed with the hook error if the body had passed, and is the body's
\* own status and error if the body had not passed.
C12_AfterEachFailure ==
    \A r \in DOMAIN ts.result.test_results :
        LET res == ts.result.test_results[r] IN
        \A b \in TraceAt("body", res.name), a \in TraceAt("after_each", res.name) :
            ~ts.trace[a].ok =>
                IF ts.trace[b].status = "Passed"
                THEN res.status = "Failed" /\ res.error = "Hook"
                ELSE /\ res.status = ts.trace[b].status
                     /\ res.error = BodyError(ts.trace[b].status)

\* C12 witness: the after_each hook failed for both tests; the first had
\* passed and is recorded Failed with the hook error, the second had failed
\* and keeps its own error.
C12_Witness ==
    /\ Len(ts.result.test_results) = 2
    /\ \A t \in {"t1", "t2"} :
          \E a \in TraceAt("after_each", t) : ~ts.trace[a].ok
    /\ \E b \in TraceAt("body", "t1") : ts.trace[b].status = "Passed"
    /\ \E b \in TraceAt("body", "t2") : ts.trace[b].status = "Failed"
    /\ ts.result.test_results[1] = FinishedTestResult("t1", "Failed", "Hook")
    /\ ts.result.test_results[2] =
           FinishedTestResult("t2", "Failed", "TestExecution")

\* C13: when the setup of the suite-scoped fixtures fails, no step is taken
\* after it: the SuiteResult is returned finished with the error and holds no
\* test result.
C13_SuiteSetupFailureStops ==
    \A k \in DOMAIN ts.trace :
        (ts.trace[k].step = "setup_suite_fixtures" /\ ~ts.trace[k].ok) =>
            /\ Len(ts.trace) = k
            /\ ts.pc = "returned"
            /\ ts.result.finished /\ ts.result.error = "Fixture"
            /\ ts.result.test_results = <<>> /\ ts.result.total_tests = 0

\* C13 witness: a suite with a test and a before_all hook, whose suite-scoped
\* fixture failed to set up.
C13_Witness ==
    /\ ts.pc = "returned"
    /\ Len(ts.suite.tests) = 1 /\ Len(ts.suite.hooks.before_all) = 1
    /\ ts.trace = <<Step("setup_suite_fixtures", "", <<"A">>, FALSE, "")>>
    /\ ts.result.error = "Fixture"

\* C14: when a before_all hook fails, no step is taken after it: the
\* SuiteResult is returned finished with the hook error and holds no test
\* result.
C14_BeforeAllFailureStops ==
    \A k \in DOMAIN ts.trace :
        (ts.trace[k].step = "before_all" /\ ~ts.trace[k].ok) =>
            /\ Len(ts.trace) = k
            /\ ts.pc = "returned"
            /\ ts.result.finished /\ ts.result.error = "Hook"
            /\ ts.result.test_results = <<>> /\ ts.result.total_tests = 0

\* C14 witness: a suite with a runnable test and an after_all hook, whose
\* before_all hook failed.
C14_Witness ==
    /\ ts.pc = "returned"
    /\ Len(get_runnable_tests(ts.suite.only, ts.suite.tests)) = 1
    /\ Len(ts.suite.hooks.after_all) = 1
    /\ Len(ts.trace) = 2 /\ ts.trace[2].step = "before_all" /\ ~ts.trace[2].ok
    /\ ts.result.error = "Hook"

\* C15: when the setup of the test-scoped fixtures fails for a test, exactly
\* one TestResult is recorded for it, Failed with the setup error, no other
\* step is taken for that test, and the execution goes on with the next
\* runnable test.
C15_TestSetupFailureSkipsTest ==
    \A k \in DOMAIN ts.trace :
        (ts.trace[k].step = "setup_test_fixtures" /\ ~ts.trace[k].ok) =>
            LET test == ts.trace[k].test IN
            /\ \A j \in DOMAIN ts.trace : ts.trace[j].test = test => j = k
            /\ Cardinality(ResultsOf(test)) = 1
            /\ \A r \in ResultsOf(test) :
                  ts.result.test_results[r] =
                      FinishedTestResult(test, "Failed", "Fixture")
            /\ ContinuesAfter(k, test)

\* C15 witness: the fixture setup failed for the first of two tests, and the
\* body of the second has run.
C15_Witness ==
    /\ ts.runnable = <<"t1", "t2">>
    /\ \E k \in TraceAt("setup_test_fixtures", "t1") : ~ts.trace[k].ok
    /\ TraceAt("body", "t2") # {}
    /\ ts.pc = "returned"

\* C16: when a before_each hook fails for a test, exactly one TestResult is
\* recorded for it, Failed with the hook error, neither the body nor the
\* after_each hooks run for it, the teardown of the test-scoped fixtures is
\* the next step taken, and the execution goes on with the next runnable test.
C16_BeforeEachFailureSkipsBody ==
    \A k \in DOMAIN ts.trace :
        (ts.trace[k].step = "before_each" /\ ~ts.trace[k].ok) =>
            LET test == ts.trace[k].test IN
            /\ TraceAt("body", test) = {} /\ TraceAt("after_each", test) = {}
            /\ TraceAt("teardown_test_fixtures", test) = {k + 1}
            /\ Cardinality(ResultsOf(test)) = 1
            /\ \A r \in ResultsOf(test) :
                  ts.result.test_results[r] =
                      FinishedTestResult(test, "Failed", "Hook")
            /\ ContinuesAfter(k + 1, test)

\* C16 witness: the before_each hook failed for the first of two tests, whose
\* fixture was torn down, and the body of the second has run.
C16_Witness ==
    /\ ts.runnable = <<"t1", "t2">>
    /\ \E k \in TraceAt("before_each", "t1") : ~ts.trace[k].ok
    /\ TraceAt("body", "t2") # {}
    /\ ts.pc = "returned"

\* C17: the step that tears the test-scoped fixtures down after a test adds
\* the TestResult the test ended with, as it is, whatever the teardown
\* returns, leaves the error of the SuiteResult unset, and leaves the execution
\* at the next runnable test or at the after_all hooks; and the teardown that
\* follows a failed before_each hook leaves the Failed TestResult of the hook,
\* the error of the SuiteResult and the next step as they are.
C17_TeardownFailureIgnored ==
    [][ /\ ts.pc = "teardown_test" =>
              /\ ts'.result.test_results =
                     Append(ts.result.test_results, ts.test_result)
              /\ ts'.result.error = "None" /\ ~ts'.result.finished
              /\ ts'.pc = AfterTest(ts.runnable, ts.i) /\ ts'.i = ts.i + 1
        /\ (ts.pc = "before_each" /\ ts'.pc # "body") =>
              /\ ts'.result.test_results =
                     Append(ts.result.test_results,
                            FinishedTestResult(ts.runnable[ts.i], "Failed", "Hook"))
              /\ ts'.result.error = "None" /\ ~ts'.result.finished
              /\ ts'.pc = AfterTest(ts.runnable, ts.i) /\ ts'.i = ts.i + 1
      ]_vars

\* C17 witness: the fixture teardown failed after the first of two tests,
\* which is recorded as passed, and the second test has run; the SuiteResult
\* is returned without an error.
C17_Witness ==
    /\ ts.runnable = <<"t1", "t2">>
    /\ \E k \in TraceAt("teardown_test_fixtures", "t1") :
          ~ts.trace[k].ok /\ ts.trace[k].ran # <<>>
    /\ TraceAt("body", "t2") # {}
    /\ ts.result.test_results[1] = FinishedTestResult("t1", "Passed", "None")
    /\ ts.pc = "returned" /\ ts.result.error = "None"

\* C18: when an after_all hook fails, no step is taken after it, the teardown
\* of the suite-scoped fixtures included: the SuiteResult is returned finished
\* with the hook error, and it holds one TestResult for each runnable test,
\* in their order, with the counters of those TestResults.
C18_AfterAllFailureKeepsResults ==
    \A k \in DOMAIN ts.trace :
        (ts.trace[k].step = "after_all" /\ ~ts.trace[k].ok) =>
            /\ Len(ts.trace) = k
            /\ ts.pc = "returned"
            /\ ts.result.finished /\ ts.result.error = "Hook"
            /\ Len(ts.result.test_results) = Len(ts.runnable)
            /\ \A j \in DOMAIN ts.runnable :
                  ts.result.test_results[j].name = ts.runnable[j]
            /\ CountersMatchResults

\* C18 witness: a suite with a suite-scoped fixture that was set up, a test
\* that passed, and an after_all hook that failed.
C18_Witness ==
    /\ ts.pc = "returned"
    /\ ts.suite.fixtures.suite_instances # {}
    /\ ts.result.test_results = <<FinishedTestResult("t1", "Passed", "None")>>
    /\ ts.result.passed_tests = 1
    /\ ts.trace[Len(ts.trace)].step = "after_all"
    /\ ~ts.trace[Len(ts.trace)].ok

\* The tests at the places of idx, in the order of the list.
TestsAt(tests, idx) ==
    [j \in 1..Cardinality(idx) |->
        tests[CHOOSE i \in idx : Cardinality({m \in idx : m < i}) = j - 1]]

\* C19: get_runnable_tests returns all the tests of a suite marked only;
\* otherwise the tests marked only, if there is one; otherwise the tests not
\* marked ignore; in declaration order. execute runs those tests.
C19_RunnableTests ==
    LET tests == ts.suite.tests
        only == {i \in DOMAIN tests : tests[i].only}
        idx == IF ts.suite.only THEN DOMAIN tests
               ELSE IF only # {} THEN only
               ELSE {i \in DOMAIN tests : ~tests[i].ignore}
        runnable == get_runnable_tests(ts.suite.only, tests)
    IN /\ runnable = TestsAt(tests, idx)
       /\ ts.pc \in {"setup_test", "before_each", "body", "after_each",
                      "teardown_test", "after_all", "teardown_suite"} =>
             ts.runnable = [j \in DOMAIN runnable |-> runnable[j].name]

\* C19 witness: of two tests the second is marked only and ignore, the first
\* neither, the suite is not marked only, and execute runs the second alone.
C19_Witness ==
    /\ ~ts.suite.only
    /\ ts.suite.tests = <<Test("t1", FALSE, FALSE), Test("t2", TRUE, TRUE)>>
    /\ ts.runnable = <<"t2">>
    /\ ts.pc = "body"

\* C20: executing the hooks of one stage calls them in list order; when no
\* called hook fails the call returns Ok having called the whole list; at the
\* first hook that fails the call returns a Hook error carrying the stage and
\* that hook's name, and no hook after it has been called.
C20_HooksStopAtFirstFailure ==
    hk.last.called =>
        LET l == hk.last
            n == Len(l.out.ran)
        IN /\ n <= Len(l.hooks) /\ l.out.ran = SubSeq(l.hooks, 1, n)
           /\ \A j \in 1..(n - 1) : j \notin l.failing
           /\ IF l.failing = {}
              THEN l.out.tag = "Ok" /\ n = Len(l.hooks)
              ELSE /\ l.out.tag = "Err"
                   /\ n \in l.failing
                   /\ l.out.err.kind = "Hook"
                   /\ l.out.err.hook_type = l.hook_type
                   /\ l.out.err.message[2] = l.hooks[n]

\* C20 witness: of three hooks of one stage the second and the third would
\* fail; the call ran the first two and returned the error of the second.
C20_Witness ==
    /\ hk.last.called
    /\ hk.last.hooks = <<"h1", "h2", "h1">>
    /\ hk.last.failing = {2, 3}
    /\ hk.last.out.ran = <<"h1", "h2">>
    /\ hk.last.out.tag = "Err"
    /\ hk.last.out.err.message[2] = "h2"

\* C21: with fail-fast disabled, a suite that ends with a fixture or hook error
\* does not stop the in-process runner: every suite that passes the filters is
\* executed, in order, its SuiteResult is added to the RunResult, and the run
\* returns only after the last of them, without a run error.
C21_SuiteErrorDoesNotStopRun ==
    ~thin.config.fail_fast =>
        /\ \A k \in 1..Len(thin.executed) : thin.executed[k].at = k
        /\ Len(thin.result.suite_results) = Len(thin.executed)
        /\ \A k \in 1..Len(thin.executed) :
              thin.result.suite_results[k] = thin.suites_to_run[k].name
        /\ thin.pc = "loop" => Len(thin.executed) = thin.i - 1
        /\ thin.pc = "returned" =>
              /\ Len(thin.executed) = Len(thin.suites_to_run)
              /\ thin.result.total_suites = Len(thin.suites_to_run)
              /\ thin.result.error = "None"
              /\ thin.suites_to_run =
                    SelectSeq(thin.suites,
                              LAMBDA s : suite_passes_filters(thin.config, s))

\* C21 witness: fail-fast is off, the first of two suites ended with a hook or
\* fixture error, the second was executed after it, and the run has returned.
C21_Witness ==
    /\ ~thin.config.fail_fast
    /\ thin.pc = "returned"
    /\ Len(thin.executed) = 2
    /\ thin.executed[1].error \in {"Hook", "Fixture"}
    /\ Len(thin.suites) > Len(thin.suites_to_run)

\* C22: a TestResult line for a name whose state is not Running (never started,
\* or already Completed) yields no event and leaves the tests map and the
\* pending_errors map as they were.
C22_UnexpectedResultIgnored ==
    \A i \in DOMAIN fed :
        (fed[i].line.type = "TestResult"
         /\ fed[i].before.tests[fed[i].line.name].state # "Running")
        => /\ fed[i].output = NoOutput
           /\ fed[i].after.tests = fed[i].before.tests
           /\ fed[i].after.pending_errors = fed[i].before.pending_errors

\* C22 witness: a result line came for a test that was never started, and a
\* second result line came for a test that had already completed.
C22_Witness ==
    /\ \E i \in DOMAIN fed :
          /\ fed[i].line.type = "TestResult" /\ fed[i].output = NoOutput
          /\ \A j \in 1..(i - 1) : fed[j].line.name # fed[i].line.name
    /\ \E i, j \in DOMAIN fed :
          /\ i < j
          /\ fed[i].line.type = "TestResult" /\ fed[i].output # NoOutput
          /\ fed[j].line.type = "TestResult" /\ fed[j].output = NoOutput
          /\ fed[j].line.name = fed[i].line.name
    /\ events # <<>>

\* C23: when a TestResult line completes a Running test, the duration stored in
\* the Completed state and reported in the TestPassed or TestFailed event is the
\* line's reported duration_ms if it has one, and the wall-clock time since
\* started_at only if it has none.
C23_ReportedDurationPreferred ==
    \A i \in DOMAIN fed :
        LET e == fed[i]
            name == e.line.name
            wall_clock == (e.at - e.before.tests[name].started_at) * 1000
            expected == IF e.line.duration_ms.some THEN e.line.duration_ms.v
                        ELSE wall_clock
        IN (e.line.type = "TestResult" /\ e.before.tests[name].state = "Running")
           => /\ e.after.tests[name].state = "Completed"
              /\ e.after.tests[name].duration_ms = expected
              /\ e.output.type \in {"TestPassed", "TestFailed"}
                    => e.output.duration_ms = expected

\* The panic lines among the lines a cargo tracker handled, by place.
PanicLocations == {i \in DOMAIN ctk.fed : ctk.fed[i].line.type = "PanicLocation"}
PanicMessages == {i \in DOMAIN ctk.fed : ctk.fed[i].line.type = "PanicMessage"}

\* C24: merging panic information into pending_errors[test] is incremental and
\* independent of the order of arrival. A panic line emits no event; one that
\* carries only a location leaves the message of that test's entry, and every
\* other entry, as it was; one that carries only a message leaves every
\* location as it was and changes no more than one entry; and when the only
\* lines handled are the panic lines of one test, its entry holds the location
\* handled last and the message handled last, whichever came first.
C24_PanicMergeOrderIndependent ==
    /\ \A i \in PanicLocations \cup PanicMessages :
          ctk.fed[i].output = NoOutput
    /\ \A i \in PanicLocations :
          LET e == ctk.fed[i] IN
          /\ e.after.pending_errors[e.line.name].v.location = e.line.location
          /\ e.before.pending_errors[e.line.name].some =>
                e.after.pending_errors[e.line.name].v.message =
                    e.before.pending_errors[e.line.name].v.message
          /\ \A n \in TestNames \ {e.line.name} :
                e.after.pending_errors[n] = e.before.pending_errors[n]
    /\ \A i \in PanicMessages :
          LET e == ctk.fed[i] IN
          /\ \A n \in TestNames :
                e.before.pending_errors[n].some =>
                    /\ e.after.pending_errors[n].some
                    /\ e.after.pending_errors[n].v.location =
                           e.before.pending_errors[n].v.location
          /\ Cardinality({n \in TestNames :
                e.after.pending_errors[n] # e.before.pending_errors[n]}) <= 1
    /\ \A n \in TestNames :
          ( /\ PanicLocations # {} /\ PanicMessages # {}
            /\ PanicLocations \cup PanicMessages = DOMAIN ctk.fed
            /\ \A i \in PanicLocations : ctk.fed[i].line.name = n )
          => LET l == CHOOSE i \in PanicLocations :
                          \A k \in PanicLocations : k <= i
                 m == CHOOSE i \in PanicMessages :
                          \A k \in PanicMessages : k <= i
             IN ctk.st.pending_errors[n] =
                    Some([location |-> ctk.fed[l].line.location,
                          message |-> Some(ctk.fed[m].line.message)])

\* C25: when a Running test receives its TestResult line, the pending error of
\* that name is removed whatever the status, the state becomes Completed with
\* that status, and the event is TestPassed, TestFailed or TestSkipped by the
\* status; the text and the location of the removed error are attached to a
\* TestFailed event only, never to a TestPassed or TestSkipped one.
C25_PendingPoppedOnResult ==
    \A i \in DOMAIN fed :
        LET e == fed[i]
            name == e.line.name
            popped == e.before.pending_errors[name]
        IN (e.line.type = "TestResult" /\ e.before.tests[name].state = "Running")
           => /\ ~e.after.pending_errors[name].some
              /\ \A n \in TestNames \ {name} :
                    e.after.pending_errors[n] = e.before.pending_errors[n]
              /\ e.after.tests[name].state = "Completed"
              /\ e.after.tests[name].status = e.line.status
              /\ e.output.name = name
              /\ e.line.status = "Failed" =>
                    /\ e.output.type = "TestFailed"
                    /\ e.output.error = IF popped.some THEN to_string(popped.v)
                                        ELSE NoOutput.error
                    /\ e.output.location = IF popped.some THEN popped.v.location
                                           ELSE None(NoLocation)
              /\ e.line.status # "Failed" =>
                    /\ e.output.type = IF e.line.status = "Passed"
                                       THEN "TestPassed" ELSE "TestSkipped"
                    /\ e.output.error = NoOutput.error
                    /\ e.output.location = None(NoLocation)

\* C25 witness: a test that had a pending error when its result line came has
\* passed, and its TestPassed event was emitted.
C25_Witness ==
    \E i \in DOMAIN fed :
        /\ fed[i].line.type = "TestResult" /\ fed[i].line.status = "Passed"
        /\ fed[i].before.tests[fed[i].line.name].state = "Running"
        /\ fed[i].before.pending_errors[fed[i].line.name].some
        /\ fed[i].output.type = "TestPassed"
        /\ fed[i].output \in Range(events)

\* Whether pending_errors of the tracker state st has an entry under the name
\* of a collected result, and the entry.
HasPending(st, name) == name \in TestNames /\ st.pending_errors[name].some
PendingOf(st, name) == st.pending_errors[name].v

\* C26: finalize_pending_errors(results) gives every collected result that has
\* no error, and whose name has an entry in pending_errors, the error of that
\* entry; a result that has an error keeps it; afterwards no entry is left
\* under the name of any collected result; and a Failed result whose panic
\* detail was handled after its result line ends up carrying that detail.
C26_FinalizeAttachesPending ==
    \A i \in DOMAIN fed :
        fed[i].src = "finalize" =>
            LET e == fed[i]
                before == e.results
                after == test_results
                first(k) == \A j \in 1..(k - 1) : before[j].name # before[k].name
            IN (\A j \in (i + 1)..Len(fed) : fed[j].src # "finalize") =>
               /\ \A k \in DOMAIN before :
                     /\ after[k].name = before[k].name
                     /\ after[k].status = before[k].status
                     /\ (before[k].error.kind = "None" /\ first(k)
                         /\ HasPending(e.before, before[k].name)) =>
                            after[k].error = test_execution(
                                to_string(PendingOf(e.before, before[k].name)))
                     /\ before[k].error.kind # "None" =>
                            after[k].error = before[k].error
                     /\ ~HasPending(e.after, before[k].name)
               /\ \A r, p \in 1..(i - 1) :
                     ( /\ r < p
                       /\ fed[r].line.type = "TestResult"
                       /\ fed[r].output.type = "TestFailed"
                       /\ fed[p].line.type = "Panic"
                       /\ fed[p].line.name = fed[r].line.name
                       /\ \A j \in (p + 1)..(i - 1) :
                             fed[j].line.name # fed[r].line.name )
                     => \E k \in DOMAIN after :
                           /\ after[k].name = fed[r].output.result.name
                           /\ after[k].status = "Failed"
                           /\ after[k].error.text.message =
                                  Some(fed[p].line.message)

RECURSIVE Unlines(_)
\* The lines, each followed by a newline, as one text.
Unlines(lines) ==
    IF lines = <<>> THEN <<>>
    ELSE Head(lines) \o <<"\n">> \o Unlines(Tail(lines))

\* The bytes of the stream that the LineBuffer has read so far.
Delivered == SubSeq(lb.stream, 1, Len(lb.stream) - Len(lb.rest))

\* The last line returned was an unterminated fragment: the stream read so far
\* does not end with a newline, and nothing is buffered.
FragmentReturned ==
    /\ (lb.eof \/ lb.flushed) /\ lb.partial = <<>> /\ lb.lines # <<>>
    /\ Delivered # <<>> /\ Delivered[Len(Delivered)] # "\n"

\* C28: however the stream is delivered in chunks, with would-block reads in
\* between, the lines returned by read_line and by the final flush are the
\* stream split at its newlines, in order: the lines returned, each with its
\* newline, followed by the buffered partial line, are the text of the bytes
\* read so far; the unterminated fragment at the end is returned once, without
\* a newline, at the end of the stream or by flush_remaining.
C28_LinesAreStreamSplit ==
    LET text == from_utf8_lossy(Delivered) IN
    /\ \A k \in DOMAIN lb.lines : find_newline(lb.lines[k]) = 0
    /\ IF FragmentReturned
       THEN Unlines(lb.lines) = text \o <<"\n">>
       ELSE Unlines(lb.lines) \o lb.partial = text
    /\ (lb.eof \/ lb.flushed) => lb.partial = <<>>

\* C29: read_panic_group reads at most four lines per call, and a group it
\* returns is a panic header and the message line that follows it, header
\* first, which the panic parser accepts: no line comes before the header in
\* the group, and the header is not without a line after it.
C29_PanicGroupIsHeaderAndMessage ==
    \A k \in DOMAIN pg.calls :
        LET c == pg.calls[k] IN
        /\ c.read <= 4
        /\ c.ret.some =>
              /\ Len(c.lines) = 2
              /\ is_panic_header(c.lines[1])
              /\ c.ret.v = join_newline(c.lines)
              /\ parse_error_output(c.ret.v).type = "Panic"

TerminalStatuses(sent) ==
    LET terminal == SelectSeq(sent, LAMBDA e :
                        e.type \in {"TestPassed", "TestFailed", "TestSkipped"})
    IN [k \in DOMAIN terminal |-> terminal[k].result.status]

\* What holds when exec_test has returned a SuiteResult: the child had exited,
\* at most one poll was begun after the exit, no partial line is left, the
\* partial line of stdout was handled by the tracker as it stood before the
\* one of stderr, finalize_pending_errors came last, and the SuiteResult is
\* made of the results of the terminal events.
ReturnedAfterFlush ==
    exec_pc = "returned" =>
        LET b == ex.before_flush
            out == on_lines(b, "stdout", flushed_lines(b.stdout_buf))
            err == on_lines(out, "stderr", flushed_lines(b.stderr_buf))
            f == finalize_pending_errors(err.state, err.test_results)
        IN /\ ex.child = "exited"
           /\ ex.polls_after_exit <= 1
           /\ ex.stdout_buf = <<>> /\ ex.stderr_buf = <<>>
           /\ ex.sent = out.sent
           /\ ex.state = f.st
           /\ ex.test_results = f.test_results
           /\ \A k \in DOMAIN ex.test_results :
                 ~ex.state.pending_errors[ex.test_results[k].name].some
           /\ ex.result = create_suite_result(<<"bin">>, TerminalStatuses(ex.sent))

C31_DependencyMaterializedIffAbsent ==
    LET l == mlog.last_setup IN
    l.res = "Ok" =>
        LET definition == mgr.definitions[l.name] IN
        \A i \in DOMAIN definition.dependencies :
            LET dep == definition.dependencies[i]
                own == TableOf(mgr.definitions[dep].scope)
            IN /\ dep \in mgr[own]
               /\ mgr.definitions[dep].setup =>
                     (dep \in Range(l.invoked) <=> dep \notin l[own])


\* C32: teardown_by_scope(scope) empties that scope's table and leaves the
\* other tables as they were, and the failure of one teardown does not keep
\* the teardown functions of the other drained instances from being invoked.
\* Stated for calls where no drained instance is held elsewhere.
C32_TeardownOfOneNeverPreventsOthers ==
    LET l == mlog.last IN
    (l.scope # "none" /\ l.held = {}) =>
        /\ mgr[TableOf(l.scope)] = {}
        /\ l.others_kept
        /\ \A n \in l.drained :
              mgr.definitions[n].teardown => n \in Range(l.teardowns)


\* C36: setup_fixture terminates, returning an instance or an error, for every
\* set of registered definitions, those whose dependencies form a cycle or
\* name the fixture itself included: no call ends in a recursion without end.
C36_SetupFixtureTerminates ==
    mlog.last_setup.res \in {"none", "Ok", "Err"} /\ ~mgr.aborted


\* The suite results that add_suite_result can be given.
GivenSuites ==
    {BuildSuite(NewSuiteResult("s"), sts) : sts \in StatusSeqs}
    \cup {suite_finish(BuildSuite(NewSuiteResult("s"), sts), error) :
              sts \in StatusSeqs, error \in {"None", "Hook"}}

\* C35: after any sequence of add_suite_result calls every added suite is
\* counted in exactly one of passed_suites, failed_suites and skipped_suites,
\* so total_suites is their sum and the number of stored suite results; and an
\* added suite is counted as passed exactly when its all_passed() is true.
C35_SuiteCountedOnce ==
    /\ [](/\ run.total_suites =
               run.passed_suites + run.failed_suites + run.skipped_suites
          /\ run.total_suites = Len(run.suite_results))
    /\ [][run'.total_suites = run.total_suites + 1 =>
             /\ run'.passed_suites + run'.failed_suites + run'.skipped_suites
                   = run.passed_suites + run.failed_suites + run.skipped_suites + 1
             /\ run'.passed_suites >= run.passed_suites
             /\ run'.failed_suites >= run.failed_suites
             /\ run'.skipped_suites >= run.skipped_suites
             /\ \A given \in GivenSuites :
                   run' = add_suite_result(run, given) =>
                       (run'.passed_suites = run.passed_suites + 1
                           <=> suite_all_passed(given))]_vars

\* C35 witness: a suite that passed and a suite with an error and no failed
\* test were added, one counted as passed and the other as failed.
C35_Witness ==
    /\ Len(run.suite_results) = 2
    /\ run.passed_suites = 1 /\ run.failed_suites = 1 /\ run.failed_tests = 0
    /\ run.total_tests > 1


\* C40: for an acyclic graph with every dependency registered, resolve_order()
\* returns a permutation of the registered names: each registered name once and
\* no other name, also when a name was registered again or is a dependency of
\* several fixtures.
C40_OrderIsPermutation ==
    (Resolved /\ ~HasCycle /\ AllDepsRegistered) =>
        /\ order.tag = "Ok"
        /\ Len(order.value) = Cardinality(Keys)
        /\ Range(order.value) = Keys

\* C40 witness: three fixtures, one of them a dependency of the two others and
\* the fixture registered last under a name that was registered before, have
\* been resolved.
C40_Witness ==
    /\ Resolved /\ ~HasCycle /\ AllDepsRegistered
    /\ Len(graph.keys) = 3
    /\ added.name # graph.keys[3]
    /\ \E d \in Keys : Cardinality({f \in Keys : d \in DepsOf(f)}) = 2


\* The outputs of the handle_line calls made so far that are terminal events.
TerminalTypes == {"TestPassed", "TestFailed", "TestSkipped"}

\* C34: for any sequence of lines fed to one tracker, at most one terminal
\* event (TestPassed, TestFailed, TestSkipped) is emitted for a name per
\* TestStart of that name: each terminal event comes after a TestStarted of
\* its name with no other terminal event of that name in between, and it is
\* emitted by a call that found the name Running and left it Completed.
C34_OneTerminalPerStart ==
    \A i \in DOMAIN fed :
        fed[i].output.type \in TerminalTypes =>
            /\ fed[i].before.tests[fed[i].output.name].state = "Running"
            /\ fed[i].after.tests[fed[i].output.name].state = "Completed"
            /\ \E j \in 1..(i - 1) :
                  /\ fed[j].output.type = "TestStarted"
                  /\ fed[j].output.name = fed[i].output.name
                  /\ \A k \in (j + 1)..(i - 1) :
                        ~(/\ fed[k].output.type \in TerminalTypes
                          /\ fed[k].output.name = fed[i].output.name)

\* C34 witness: t was started, completed, given a second result line that
\* emitted nothing, and started again.
C34_Witness ==
    /\ Len(fed) = 4
    /\ fed[1].output.type = "TestStarted" /\ fed[1].output.name = <<"t">>
    /\ fed[2].output.type \in TerminalTypes
    /\ fed[3].line.type = "TestResult" /\ fed[3].line.name = <<"t">>
    /\ fed[3].output.type = "None"
    /\ fed[4].output.type = "TestStarted" /\ fed[4].output.name = <<"t">>


\* C39: every complete line the child wrote to stdout before it exited has
\* gone through the parser and the tracker when exec_test has returned its
\* SuiteResult: no complete line is left unread in the pipe, whatever the
\* interleaving of the child's writes, its exit, the polls and try_wait.
C39_NoCompleteLineLeftInPipe ==
    exec_pc = "returned" => \A k \in DOMAIN ex.stdout : ex.stdout[k] # "\n"


\* C33: when the setup of the suite-scoped fixtures and the before_all hooks
\* succeed, the SuiteResult that execute returns holds exactly one TestResult
\* for each runnable test, in declaration order, whichever stage fails for a
\* test (fixture setup, before_each, body, after_each, teardown); while the
\* loop runs, the tests before the current one have one TestResult each.
C33_OneResultPerRunnableTest ==
    (\E k \in DOMAIN ts.trace : ts.trace[k].step = "before_all" /\ ts.trace[k].ok) =>
        LET runnable == get_runnable_tests(ts.suite.only, ts.suite.tests)
            done == IF ts.pc = "returned" THEN Len(runnable) ELSE ts.i - 1
        IN /\ ts.runnable = [j \in DOMAIN runnable |-> runnable[j].name]
           /\ Len(ts.result.test_results) = done
           /\ \A j \in 1..done : ts.result.test_results[j].name = runnable[j].name

\* C33 witness: of two runnable tests the first failed at the setup of its
\* fixture and the second at the teardown of it, and the SuiteResult has been
\* returned.
C33_Witness ==
    /\ ts.pc = "returned"
    /\ ts.runnable = <<"t1", "t2">>
    /\ \E k \in TraceAt("setup_test_fixtures", "t1") : ~ts.trace[k].ok
    /\ \E k \in TraceAt("teardown_test_fixtures", "t2") : ~ts.trace[k].ok
    /\ Len(ts.result.test_results) = 2


\* The times the setup function of fixture n returned an instance, and the
\* times an instance of n was given to its teardown function, in the execution
\* so far: the last function of a step that failed is the one that failed.
SetupsDone(n) ==
    Cardinality({<<k, j>> \in (DOMAIN ts.trace) \X (1..MaxBuild) :
        /\ ts.trace[k].step \in {"setup_suite_fixtures", "setup_test_fixtures"}
        /\ j \in DOMAIN ts.trace[k].ran /\ ts.trace[k].ran[j] = n
        /\ (ts.trace[k].ok \/ j < Len(ts.trace[k].ran))})
TeardownsCalled(n) ==
    Cardinality({<<k, j>> \in (DOMAIN ts.trace) \X (1..MaxBuild) :
        /\ ts.trace[k].step \in {"teardown_suite_fixtures", "teardown_test_fixtures"}
        /\ j \in DOMAIN ts.trace[k].ran /\ ts.trace[k].ran[j] = n})

\* C37: in TestSuite::execute every instance a setup function returned is
\* removed from the registry and given to its teardown function exactly once
\* before execute returns, on every path; and no test-scoped instance made for
\* one test is live when the fixtures of the next test are set up.
C37_EveryInstanceTornDownOnce ==
    /\ ts.pc = "returned" =>
          /\ ts.suite.fixtures.suite_instances = {}
          /\ ts.suite.fixtures.test_instances = {}
          /\ \A n \in DOMAIN ts.suite.fixtures.defs :
                ts.suite.fixtures.defs[n].teardown =>
                    TeardownsCalled(n) = SetupsDone(n)
    /\ ts.pc = "setup_test" => ts.suite.fixtures.test_instances = {}


\* C38: whenever the registry of the suite invokes the setup function of a
\* fixture, every dependency of the fixture that has a setup function has a
\* live instance in the registry, whatever the scopes of the two. Stated right
\* after a setup step: a dependency is live for a fixture of the step when
\* the registry holds its instance and the step did not make it later.
C38_DependenciesLiveAtSetup ==
    (ts.trace # <<>> /\ ts.trace[Len(ts.trace)].step
                            \in {"setup_suite_fixtures", "setup_test_fixtures"}) =>
        LET e == ts.trace[Len(ts.trace)]
            r == ts.suite.fixtures
        IN \A j \in DOMAIN e.ran :
              \A d \in Range(r.defs[e.ran[j]].dependencies) :
                  (d \in DOMAIN r.defs /\ r.defs[d].setup) =>
                      /\ d \in r.suite_instances \cup r.test_instances
                      /\ \A i \in DOMAIN e.ran : e.ran[i] = d => i < j

====
